---- MODULE Spec2Model ----
(***************************************************************************)
(* Page-state orchestration of the document OCR pipeline                   *)
(* (y2d2-oce-base): Step3 orientation correction, Step4 page-count merge   *)
(* and forced split, Step5 tiling bands.                                   *)
(*                                                                         *)
(* Python values are encoded so that values of different Python types stay *)
(* comparable: a raw JSON value is a record [t, v] (t = "None", "int" or   *)
(* "str"), an Optional is a sequence of length 0 or 1, a float ratio is a  *)
(* whole number of percent.                                                *)
(***************************************************************************)
EXTENDS Integers, Sequences, FiniteSets, TLC

VARIABLES
    individual_results,   \* Step4: per-image judgment results of one page
    merged_result,        \* Step4: Optional result of _merge_individual_results
    image_width,          \* PageSplitter: width of the image to split left/right
    overlap_ratio,        \* PageSplitter: overlap ratio, in percent
    lr_split,             \* PageSplitter: Optional [left_end, right_start]
    image_height,         \* ImageSplitter: height of the image to tile
    splitter,             \* ImageSplitter: [num_splits, overlap_ratio, min_height_per_split]
    regions,              \* ImageSplitter: Optional list of <<start_y, end_y>>
    rotation,             \* OrientationDetector: raw recommended_angle of a judgment
    angle,                \* OrientationDetector: Optional normalised angle
    page_judgments,       \* the list of page_data dicts a stage is called with
    tasks,                \* the page tasks of the running stage, in gather order
    answers,              \* per task, what the external calls answered so far
    unreadable,           \* the image files missing from the disk (not readable)
    step3_result,         \* Optional return value of Step3Processor.process_pages
    step4_result,         \* Optional return value of Step4Processor.process_pages
    pdf_document,         \* the PDF: whether it opens, and what each page allows
    step1,                \* PDFProcessor.process_pdf: position and locals of the run
    pdf_result,           \* Optional return value of PDFProcessor.process_pdf
    step2_result,         \* Optional return value of Step2Processor.process_pages
    dpi_calculator,       \* DPICalculator: [target_size, min_dpi, max_dpi, default_dpi]
    page_size,            \* DPICalculator: [width, height] of a page, in points
    optimal_dpi,          \* DPICalculator: per scale factor, Optional calculated DPI
    ocr_group,            \* Step6: the images list of one OCR group record
    ocr_missing,          \* Step6: the image paths of the group missing from the disk
    gemini_paths,         \* Step6: Optional image lists of GeminiOCREngine
    docai_paths,          \* Step6: Optional image lists of DocumentAIOCREngine
    session_dirs,         \* the session-directories map: key -> path
    step6,                \* Step6Processor: position, semaphore and groups of the run
    group_tasks,          \* Step6: per group, the task position and both engine results
    disk,                 \* the directories and text files the OCR stages wrote
    step6_result,         \* Optional return value of Step6Processor.process_step5_results
    step7_result,         \* Optional return value of Step7Processor.process_step6_results
    stage,                \* the stage that is running
    pipeline,             \* DocumentOCRPipeline: its processors and the pipeline_result dict
    step5_result,         \* Optional return value of Step5Processor.process_pages
    evaluator,            \* PageCountEvaluator: one evaluate_page_count call and its attempts
    ocr_engine            \* GeminiOCREngine: one extract_text_from_images call and its retries

vars_merge == <<individual_results, merged_result>>
vars_lr == <<image_width, overlap_ratio, lr_split>>
vars_tile == <<image_height, splitter, regions>>
vars_angle == <<rotation, angle>>
vars_stage12 == <<pdf_document, step1, pdf_result, step2_result>>
vars_pages == <<page_judgments, tasks, answers, unreadable, step3_result, step4_result, vars_stage12>>
vars_dpi == <<dpi_calculator, page_size, optimal_dpi>>
vars_ocr == <<ocr_group, ocr_missing, gemini_paths, docai_paths>>
vars_late == <<session_dirs, step6, group_tasks, disk, step6_result, step7_result>>
vars_retry == <<evaluator, ocr_engine>>
vars_run == <<stage, pipeline, step5_result, vars_retry>>
vars_calc == <<vars_dpi, vars_ocr, vars_late, vars_run>>
vars_fn == <<vars_merge, vars_lr, vars_tile, vars_angle, vars_calc>>
vars == <<vars_merge, vars_lr, vars_tile, vars_angle, vars_pages, vars_calc>>

(***************************************************************************)
(* Bounds                                                                  *)
(***************************************************************************)
MaxResults == 2           \* longest list of per-image results handed to the merge
MaxNegPageCount == 1      \* raw page_count values range over -MaxNegPageCount..MaxRawPageCount
MaxRawPageCount == 3
MaxImageWidth == 1000     \* widest image handed to the left/right split
MaxImageHeight == 600     \* tallest image handed to the tiling
MaxNumSplits == 5         \* largest configured num_splits
MaxAngle == 200           \* raw angles range over -MaxAngle..MaxAngle
MaxImages == 2            \* most processed images a page enters a stage with
SideStep == 40            \* page widths and heights are multiples of SideStep points
MaxSideSteps == 100       \* largest page side, in steps
MaxPdfPages == 4          \* most pages of a PDF
MaxTiles == 3             \* most tiles of an OCR group
MaxGroups == 3            \* most OCR groups handed to Step6
MaxConcurrentOcr == 2     \* largest configured max_concurrent_ocr
MaxPipelinePages == 2     \* most pages of a PDF handed to the whole pipeline
MaxLiveGroups == 2        \* most OCR groups of the runs checked for termination
MaxRetries == 3           \* largest max_retries of an evaluator or an OCR engine (default 3)

\* the page numbers of the pages handed to a stage (in any order)
PageNumbers == {1, 2}

\* sample overlap ratios (percent) and min_height_per_split settings
OverlapRatios == {0, 5, 10, 25, 50, 100}
MinHeights == {0, 1, 30, 100}

(***************************************************************************)
(* Python helpers                                                          *)
(***************************************************************************)
PyNone == [t |-> "None", v |-> 0]
PyInt(n) == [t |-> "int", v |-> n]
PyStr == [t |-> "str", v |-> 0]      \* a string that int() cannot convert

Max2(a, b) == IF a >= b THEN a ELSE b
Min2(a, b) == IF a <= b THEN a ELSE b

\* str.lower() on the readability strings the judgment can carry
Lower(s) ==
    CASE s = "Major" -> "major"
      [] s = "MINOR" -> "minor"
      [] OTHER -> s

(***************************************************************************)
(* Step4Processor._to_int: None and unconvertible values give None         *)
(***************************************************************************)
ToInt(value) ==
    IF value.t = "None" THEN <<>>
    ELSE IF value.t = "int" THEN <<value.v>>
    ELSE <<>>

(***************************************************************************)
(* Step4Processor._merge_individual_results                                *)
(***************************************************************************)
\* order = {"none": 0, "minor": 1, "major": 2}
OrderKeys == {"none", "minor", "major"}
order(k) == CASE k = "none" -> 0 [] k = "minor" -> 1 [] k = "major" -> 2
rev_order(n) == CASE n = 0 -> "none" [] n = 1 -> "minor" [] n = 2 -> "major"

\* the page_count accumulation of the loop over individual_results[1..n]
RECURSIVE MergedPageCountLoop(_, _)
MergedPageCountLoop(results, n) ==
    IF n = 0 THEN 0
    ELSE LET res == results[n]
             acc == MergedPageCountLoop(results, n - 1)
             pc == ToInt(res.judgment.page_count)
         IN  IF ~res.success THEN acc
             ELSE IF pc # <<>> THEN acc + pc[1]
             ELSE acc

\* mutant: the last recognised level wins instead of the worst one
WorstValLoop_LastWins(results, n) ==
    LET Last[k \in 0..n] ==
            IF k = 0 THEN -1
            ELSE LET ri == Lower(results[k].judgment.readability_issues)
                 IN  IF results[k].success /\ ri \in OrderKeys THEN order(ri) ELSE Last[k - 1]
    IN  Last[n]

\* the worst_val accumulation of the loop over individual_results[1..n]
RECURSIVE WorstValLoop(_, _)
WorstValLoop(results, n) ==
    IF n = 0 THEN -1
    ELSE LET res == results[n]
             acc == WorstValLoop(results, n - 1)
             ri == Lower(res.judgment.readability_issues)
         IN  IF ~res.success THEN acc
             ELSE IF ri \in OrderKeys THEN Max2(acc, order(ri))
             ELSE acc

\* mutant: the upper clamp is missing
ClampPageCount_NoUpper(merged_page_count) ==
    IF merged_page_count <= 0 THEN 1 ELSE merged_page_count

\* the two clamping statements after the loop
ClampPageCount(merged_page_count) ==
    LET a == IF merged_page_count <= 0 THEN 1 ELSE merged_page_count
    IN  IF a > 3 THEN 3 ELSE a

\* mutant: one failed image judgment fails the whole merge
MergeIndividualResults_AllOrNothing(results, page_number) ==
    IF Len(results) = 0 \/ \E k \in 1..Len(results) : ~results[k].success
    THEN [success |-> FALSE, page_number |-> page_number, merged_judgment |-> <<>>,
          individual_results |-> <<>>, error |-> TRUE]
    ELSE [success |-> TRUE,
          page_number |-> page_number,
          individual_results |-> results,
          error |-> FALSE,
          merged_judgment |->
            <<[page_count |-> ClampPageCount(MergedPageCountLoop(results, Len(results))),
               readability_issues |->
                   IF WorstValLoop(results, Len(results)) >= 0
                   THEN rev_order(WorstValLoop(results, Len(results))) ELSE "none"]>>]

MergeIndividualResults(results, page_number) ==
    IF Len(results) = 0
    THEN [success |-> FALSE, page_number |-> page_number, merged_judgment |-> <<>>,
          individual_results |-> <<>>, error |-> TRUE]
    ELSE LET worst_val == WorstValLoop(results, Len(results))
         IN  [success |-> TRUE,
              page_number |-> page_number,
              individual_results |-> results,
              error |-> FALSE,
              merged_judgment |->
                <<[page_count |-> ClampPageCount(MergedPageCountLoop(results, Len(results))),
                   readability_issues |->
                       IF worst_val >= 0 THEN rev_order(worst_val) ELSE "none"]>>]

(***************************************************************************)
(* Results of PageCountEvaluator.evaluate_page_count                       *)
(***************************************************************************)
EmptyJudgment == [page_count |-> PyNone, readability_issues |-> ""]
FailedResult == [success |-> FALSE, judgment |-> EmptyJudgment]

RawPageCounts == {PyNone, PyStr} \cup {PyInt(n) : n \in (-MaxNegPageCount)..MaxRawPageCount}
RawReadability == {"", "none", "minor", "major", "Major", "severe"}

SuccessResults ==
    {[success |-> TRUE, judgment |-> [page_count |-> pc, readability_issues |-> ri]] :
        pc \in RawPageCounts, ri \in RawReadability}

EvaluatorResults == {FailedResult} \cup SuccessResults

(***************************************************************************)
(* PageSplitter.split_image_left_right_with_overlap: the two column bands. *)
(* int(width * overlap_ratio) is the floor of the product; the ratio is    *)
(* given in percent.                                                       *)
(***************************************************************************)
\* mutant: the whole overlap width is added on the left side only
SplitImageLeftRightWithOverlap_OneSided(width, ratio) ==
    LET overlap_width == (width * ratio) \div 100
        center_x == width \div 2
    IN  [left_end |-> center_x + overlap_width, right_start |-> center_x]

SplitImageLeftRightWithOverlap(width, ratio) ==
    LET overlap_width == (width * ratio) \div 100
        center_x == width \div 2
        left_end == center_x + overlap_width \div 2
        right_start == center_x - overlap_width \div 2
    IN  [left_end |-> left_end, right_start |-> right_start]

(***************************************************************************)
(* ImageSplitter.calculate_split_regions                                   *)
(***************************************************************************)
\* base_height after the minimum-height check
BaseHeight(cfg, height) ==
    LET base_height == height \div cfg.num_splits
    IN  IF base_height < cfg.min_height_per_split
        THEN height \div Max2(1, height \div cfg.min_height_per_split)
        ELSE base_height

\* actual_splits after the minimum-height check
ActualSplits(cfg, height) ==
    LET base_height == height \div cfg.num_splits
    IN  IF base_height < cfg.min_height_per_split
        THEN Max2(1, height \div cfg.min_height_per_split)
        ELSE cfg.num_splits

\* overlap_pixels = int(base_height * overlap_ratio)
OverlapPixels(cfg, height) == (BaseHeight(cfg, height) * cfg.overlap_ratio) \div 100

\* mutant: the last band is cut like the others instead of running to the end
CalculateSplitRegions_LastNotExtended(cfg, height) ==
    LET base_height == BaseHeight(cfg, height)
        overlap_pixels == OverlapPixels(cfg, height)
    IN  [k \in 1..ActualSplits(cfg, height) |->
            <<Max2(0, (k - 1) * base_height - overlap_pixels),
              Min2(height, k * base_height + overlap_pixels)>>]

\* mutant: a band starts at its own base row, only its end is extended
CalculateSplitRegions_StartNotExtended(cfg, height) ==
    LET base_height == BaseHeight(cfg, height)
        actual_splits == ActualSplits(cfg, height)
        overlap_pixels == OverlapPixels(cfg, height)
    IN  [k \in 1..actual_splits |->
            <<(k - 1) * base_height,
              IF k = actual_splits THEN height
              ELSE Min2(height, k * base_height + overlap_pixels)>>]

\* regions[k] is the band of loop index i = k - 1
CalculateSplitRegions(cfg, height) ==
    LET base_height == BaseHeight(cfg, height)
        actual_splits == ActualSplits(cfg, height)
        overlap_pixels == OverlapPixels(cfg, height)
    IN  [k \in 1..actual_splits |->
            <<Max2(0, (k - 1) * base_height - overlap_pixels),
              IF k = actual_splits THEN height
              ELSE Min2(height, k * base_height + overlap_pixels)>>]

(***************************************************************************)
(* OrientationDetector._extract_rotation_angle.  The raw value is          *)
(* [t, v]: an int v, a string whose first number is v ("str"), or one of   *)
(* the listed words ("word", v = 0 for "none", 90 for the clockwise words, *)
(* -90 for the counter-clockwise ones, 180 for upside-down, 1 for a text   *)
(* without digits that is not listed).                                     *)
(***************************************************************************)
\* mutant: the lower bound of the 0 bucket is exclusive
NormalizeAngle_OpenLow(a) ==
    IF -45 < a /\ a <= 45 THEN 0
    ELSE IF 45 < a /\ a <= 135 THEN 90
    ELSE IF -135 <= a /\ a <= -45 THEN -90
    ELSE 180

\* the if/elif chain under "# 正規化"
NormalizeAngle(a) ==
    IF -45 <= a /\ a <= 45 THEN 0
    ELSE IF 45 < a /\ a <= 135 THEN 90
    ELSE IF -135 <= a /\ a < -45 THEN -90
    ELSE 180

ExtractRotationAngle(raw) ==
    CASE raw.t = "int" -> NormalizeAngle(raw.v)
      [] raw.t = "str" ->
            IF raw.v \in {0, 90, -90, 180} THEN raw.v ELSE NormalizeAngle(raw.v)
      [] raw.t = "word" -> IF raw.v \in {0, 90, -90, 180} THEN raw.v ELSE 0
      [] OTHER -> 0

RawRotations ==
    {[t |-> k, v |-> n] : k \in {"int", "str"}, n \in (-MaxAngle)..MaxAngle}
    \cup {[t |-> "word", v |-> n] : n \in {0, 90, -90, 180, 1}}
    \cup {PyNone}

SplitterConfigs ==
    {[num_splits |-> n, overlap_ratio |-> r, min_height_per_split |-> m] :
        n \in 1..MaxNumSplits, r \in OverlapRatios, m \in MinHeights}

(***************************************************************************)
(* Specification of the merge: the results of one page arrive one per      *)
(* image, then the page task merges them.                                  *)
(***************************************************************************)
IdleStep6 == [pc |-> "idle", max_concurrent_ocr |-> 0, semaphore |-> 0, groups |-> <<>>]
IdleLate ==
    /\ session_dirs = <<>>
    /\ step6 = IdleStep6
    /\ group_tasks = <<>>
    /\ disk = [dirs |-> {}, files |-> {}, result |-> {}]
    /\ step6_result = <<>>
    /\ step7_result = <<>>
IdlePipeline ==
    [step2_processor |-> FALSE, step3_processor |-> FALSE, pipeline_result |-> <<>>]
IdleEvaluator ==
    [pc |-> "idle", max_retries |-> 0, precondition |-> "ok", api_calls |-> 0,
     attempts |-> <<>>, last_error |-> <<>>, result |-> <<>>]
IdleOcrEngine ==
    [pc |-> "idle", max_retries |-> 0, image_paths |-> 0, retry_count |-> 0, api_calls |-> 0,
     api_results |-> <<>>, sleeps |-> <<>>, result |-> <<>>]
IdleRetry == evaluator = IdleEvaluator /\ ocr_engine = IdleOcrEngine
IdleRun == stage = "idle" /\ pipeline = IdlePipeline /\ step5_result = <<>> /\ IdleRetry
IdleMerge == individual_results = <<>> /\ merged_result = <<>>
IdleLR == image_width = 0 /\ overlap_ratio = 0 /\ lr_split = <<>>
IdleTile ==
    /\ image_height = 0
    /\ splitter = [num_splits |-> 1, overlap_ratio |-> 0, min_height_per_split |-> 0]
    /\ regions = <<>>
IdleAngle == rotation = PyNone /\ angle = <<>>
IdleDPI ==
    /\ dpi_calculator = [target_size |-> <<0, 0>>, min_dpi |-> 0, max_dpi |-> 0, default_dpi |-> 0]
    /\ page_size = [width |-> 0, height |-> 0]
    /\ optimal_dpi = <<>>
IdleOCR == ocr_group = <<>> /\ ocr_missing = {} /\ gemini_paths = <<>> /\ docai_paths = <<>>
IdleCalc == IdleDPI /\ IdleOCR /\ IdleLate /\ IdleRun
IdleStep1 == [pc |-> "idle", page_num |-> 0, pages |-> <<>>, successful_pages |-> 0]
IdleStage12 ==
    /\ pdf_document = [opens |-> FALSE, pages |-> <<>>]
    /\ step1 = IdleStep1
    /\ pdf_result = <<>>
    /\ step2_result = <<>>
IdlePages ==
    /\ page_judgments = <<>>
    /\ tasks = <<>>
    /\ answers = <<>>
    /\ unreadable = {}
    /\ step3_result = <<>>
    /\ step4_result = <<>>
    /\ IdleStage12

InitMerge ==
    /\ individual_results = <<>>
    /\ merged_result = <<>>
    /\ IdleLR /\ IdleTile /\ IdleAngle /\ IdlePages /\ IdleCalc

AppendResult ==
    /\ merged_result = <<>>
    /\ Len(individual_results) < MaxResults
    /\ \E r \in EvaluatorResults : individual_results' = Append(individual_results, r)
    /\ UNCHANGED <<merged_result, vars_lr, vars_tile, vars_angle, vars_pages, vars_calc>>

Merge ==
    /\ merged_result = <<>>
    /\ Len(individual_results) >= 1
    /\ merged_result' = <<MergeIndividualResults(individual_results, 1)>>
    /\ UNCHANGED <<individual_results, vars_lr, vars_tile, vars_angle, vars_pages, vars_calc>>

NextMerge == AppendResult \/ Merge

SpecMerge == InitMerge /\ [][NextMerge]_vars

(***************************************************************************)
(* Specification of the forced left/right split of one image               *)
(***************************************************************************)
InitLR ==
    /\ image_width \in 1..MaxImageWidth
    /\ overlap_ratio \in OverlapRatios
    /\ lr_split = <<>>
    /\ IdleMerge /\ IdleTile /\ IdleAngle /\ IdlePages /\ IdleCalc

SplitLeftRight ==
    /\ lr_split = <<>>
    /\ lr_split' = <<SplitImageLeftRightWithOverlap(image_width, overlap_ratio)>>
    /\ UNCHANGED <<image_width, overlap_ratio, vars_merge, vars_tile, vars_angle, vars_pages, vars_calc>>

NextLR == SplitLeftRight

SpecLR == InitLR /\ [][NextLR]_vars

(***************************************************************************)
(* Specification of the tiling computation of one image                    *)
(***************************************************************************)
InitTile ==
    /\ image_height \in 1..MaxImageHeight
    /\ splitter \in SplitterConfigs
    /\ regions = <<>>
    /\ IdleMerge /\ IdleLR /\ IdleAngle /\ IdlePages /\ IdleCalc

CalculateRegions ==
    /\ regions = <<>>
    /\ regions' = <<CalculateSplitRegions(splitter, image_height)>>
    /\ UNCHANGED <<image_height, splitter, vars_merge, vars_lr, vars_angle, vars_pages, vars_calc>>

NextTile == CalculateRegions

SpecTile == InitTile /\ [][NextTile]_vars

(***************************************************************************)
(* Specification of the angle extraction of one orientation judgment       *)
(***************************************************************************)
InitAngle ==
    /\ rotation \in RawRotations
    /\ angle = <<>>
    /\ IdleMerge /\ IdleLR /\ IdleTile /\ IdlePages /\ IdleCalc

ExtractAngle ==
    /\ angle = <<>>
    /\ angle' = <<ExtractRotationAngle(rotation)>>
    /\ UNCHANGED <<rotation, vars_merge, vars_lr, vars_tile, vars_pages, vars_calc>>

NextAngle == ExtractAngle

SpecAngle == InitAngle /\ [][NextAngle]_vars

(***************************************************************************)
(* Page records.  An image path is [page, img, sfx]: the img-th image of   *)
(* the page as the previous stage left it, with the suffix a later step    *)
(* appended to its file name.                                              *)
(***************************************************************************)
Path(p, i, sfx) == [page |-> p, img |-> i, sfx |-> sfx]

\* the page_data dict of page p entering a stage with n images; n = 0 is
\* the error entry of the previous stage, which carries no image
PageData(p, n, skip) ==
    [page_number |-> p,
     skip_processing |-> skip,
     processed_images |-> [i \in 1..n |-> Path(p, i, "")],
     processed_image |-> IF n = 0 THEN <<>> ELSE <<Path(p, 1, "")>>,
     needs_dewarping |-> FALSE,
     dewarping_applied |-> FALSE,
     page_count |-> <<>>,
     step3_result |-> <<>>,
     step4_page_count_result |-> <<>>]

\* page_data.get("processed_images") or [page_data.get("processed_image")],
\* None entries removed
ProcImages(page_data) ==
    IF page_data.processed_images # <<>> THEN page_data.processed_images
    ELSE page_data.processed_image

\* every list of page_data dicts over PageNumbers, one per page, in any order
PageLists ==
    LET N == Cardinality(PageNumbers)
    IN  {[i \in 1..N |-> PageData(ord[i], cnt[i], skip[i])] :
            ord \in {f \in [1..N -> PageNumbers] : \A i, j \in 1..N : f[i] = f[j] => i = j},
            cnt \in [1..N -> 0..MaxImages],
            skip \in [1..N -> BOOLEAN]}

\* the indices of the pages a stage creates a task for (valid_pages)
ValidPages(pages) == SelectSeq([i \in 1..Len(pages) |-> i], LAMBDA i : ~pages[i].skip_processing)

AllTasksDone == \A t \in 1..Len(tasks) : tasks[t].pc = "done"

(***************************************************************************)
(* Step3: ImageRotator and Step3Processor                                  *)
(***************************************************************************)
\* what the orientation judgment and the rotation of one image can answer
OrientationAnswers == {"detect_failed", "no_rotation", "rotated", "rotate_failed"}

\* OrientationDetector.detect: OrientationDetectionResult of an answer
Detection(answer) ==
    [success |-> answer # "detect_failed",
     angle |-> IF answer \in {"rotated", "rotate_failed"} THEN 90 ELSE 0]

\* ImageRotator._generate_output_path: an existing suffix is replaced
GenerateOutputPath(input_path) == [input_path EXCEPT !.sfx = "_rot"]

\* ImageRotator.rotate_image for a non-zero angle
RotateImage(image_path, rotate_angle, saved) ==
    IF rotate_angle = 0
    THEN [success |-> TRUE, rotated |-> FALSE, output_path |-> <<image_path>>]
    ELSE IF saved
    THEN [success |-> TRUE, rotated |-> TRUE, output_path |-> <<GenerateOutputPath(image_path)>>]
    ELSE [success |-> FALSE, rotated |-> FALSE, output_path |-> <<>>]

\* Step3Processor._process_single_image
ProcessSingleImage(img_path, answer) ==
    LET detection_result == Detection(answer)
        rotation_result == RotateImage(img_path, detection_result.angle, answer = "rotated")
    IN  IF ~detection_result.success
        THEN [success |-> FALSE, rotated |-> FALSE, angle |-> 0,
              input_path |-> img_path, output_path |-> img_path]
        ELSE IF detection_result.angle = 0
        THEN [success |-> TRUE, rotated |-> FALSE, angle |-> 0,
              input_path |-> img_path, output_path |-> img_path]
        ELSE IF rotation_result.success
        THEN [success |-> TRUE, rotated |-> TRUE, angle |-> detection_result.angle,
              input_path |-> img_path, output_path |-> rotation_result.output_path[1]]
        ELSE [success |-> FALSE, rotated |-> FALSE, angle |-> 0,
              input_path |-> img_path, output_path |-> img_path]

\* mutant: the rotated file name is committed also when nothing was written
Step3AppendPath_AlwaysRotated(new_paths, img_path, img_result) ==
    IF img_result.success THEN Append(new_paths, img_result.output_path)
    ELSE Append(new_paths, GenerateOutputPath(img_path))

\* the new_paths.append of the image loop of _process_single_page
Step3AppendPath(new_paths, img_path, img_result) ==
    IF img_result.success THEN Append(new_paths, img_result.output_path)
    ELSE Append(new_paths, img_path)

\* _process_single_page up to its first await: a page without images
\* returns a failure at once, any other page awaits its first image
Step3NewTask(pages, i) ==
    LET page_data == pages[i]
        first == [page |-> i,
                  pc |-> "awaiting",
                  proc_images |-> ProcImages(page_data),
                  img_idx |-> 1,
                  new_paths |-> <<>>,
                  result |-> [page_number |-> page_data.page_number, success |-> TRUE,
                              rotated_count |-> 0, image_results |-> <<>>, error |-> FALSE]]
    IN  IF first.proc_images = <<>>
        THEN [first EXCEPT !.pc = "done", !.result.success = FALSE, !.result.error = TRUE]
        ELSE first

InitStep3 ==
    /\ page_judgments \in PageLists
    /\ tasks = <<>>
    /\ answers = <<>>
    /\ unreadable = {}
    /\ step3_result = <<>>
    /\ step4_result = <<>>
    /\ IdleStage12
    /\ IdleMerge /\ IdleLR /\ IdleTile /\ IdleAngle /\ IdleCalc

\* process_pages up to "await asyncio.gather": one task per page that is not
\* skipped, each run to its first await
Step3Start ==
    /\ tasks = <<>> /\ step3_result = <<>>
    /\ ValidPages(page_judgments) # <<>>
    /\ LET valid_pages == ValidPages(page_judgments)
       IN  /\ tasks' = [t \in 1..Len(valid_pages) |-> Step3NewTask(page_judgments, valid_pages[t])]
           /\ answers' = [t \in 1..Len(valid_pages) |-> <<>>]
    /\ UNCHANGED <<page_judgments, unreadable, step3_result, step4_result, vars_stage12, vars_fn>>

Step3MoreImages_Never(img_idx, proc_images) == FALSE

\* "for img_idx, img_path in enumerate(proc_images)": whether the loop of
\* _process_single_page has another image to await after image img_idx
Step3MoreImages(img_idx, proc_images) == img_idx < Len(proc_images)

\* a page task resumes with the answer for its current image, handles it,
\* and either awaits the next image or commits the page and returns
Step3ImageDone(t) ==
    /\ tasks[t].pc = "awaiting"
    /\ \E answer \in OrientationAnswers :
          LET task == tasks[t]
              page_data == page_judgments[task.page]
              proc_images == task.proc_images
              img_path == proc_images[task.img_idx]
              img_result == ProcessSingleImage(img_path, answer)
              new_paths == Step3AppendPath(task.new_paths, img_path, img_result)
              result == [task.result EXCEPT
                            !.image_results = Append(@, img_result),
                            !.rotated_count =
                                IF img_result.success /\ img_result.rotated THEN @ + 1 ELSE @]
          IN  /\ answers' = [answers EXCEPT ![t] = Append(@, answer)]
              /\ IF Step3MoreImages(task.img_idx, proc_images)
                 THEN /\ tasks' = [tasks EXCEPT ![t] =
                              [task EXCEPT !.img_idx = @ + 1, !.new_paths = new_paths,
                                           !.result = result]]
                      /\ UNCHANGED page_judgments
                 ELSE /\ tasks' = [tasks EXCEPT ![t] =
                              [task EXCEPT !.pc = "done", !.new_paths = new_paths,
                                           !.result = result]]
                      /\ page_judgments' = [page_judgments EXCEPT ![task.page] =
                              [page_data EXCEPT
                                  !.processed_images = new_paths,
                                  !.processed_image = <<new_paths[1]>>,
                                  !.step3_result = <<[processed |-> TRUE,
                                                      rotated_count |-> result.rotated_count,
                                                      image_results |-> result.image_results]>>]]
    /\ UNCHANGED <<unreadable, step3_result, step4_result, vars_stage12, vars_fn>>

\* the except branch of _process_single_page: an exception out of the image
\* loop ends the task with a failed result, the page_data is left as it was
Step3PageRaised(t) ==
    /\ tasks[t].pc = "awaiting"
    /\ tasks' = [tasks EXCEPT ![t] =
                    [@ EXCEPT !.pc = "done", !.result.success = FALSE, !.result.error = TRUE]]
    /\ UNCHANGED <<page_judgments, answers, unreadable, step3_result, step4_result,
                   vars_stage12, vars_fn>>

\* mutant: the results are collected last task first
GatheredResults_Reversed == [t \in 1..Len(tasks) |-> tasks[Len(tasks) + 1 - t].result]

\* the results gather returns, in task order
GatheredResults == [t \in 1..Len(tasks) |-> tasks[t].result]

RECURSIVE SumRotated(_)
SumRotated(results) ==
    IF results = <<>> THEN 0
    ELSE (IF Head(results).success /\ Head(results).rotated_count > 0
          THEN Head(results).rotated_count ELSE 0) + SumRotated(Tail(results))

\* process_pages after gather: statistics and the returned dict
Step3Finish ==
    /\ step3_result = <<>>
    /\ \/ tasks # <<>> /\ AllTasksDone
       \/ tasks = <<>> /\ ValidPages(page_judgments) = <<>>
    /\ LET page_results == GatheredResults
       IN  step3_result' =
              <<[success |-> TRUE,
                 total_pages |-> Len(page_judgments),
                 processed_pages |-> Len(SelectSeq(page_results, LAMBDA r : r.success)),
                 rotated_images |-> SumRotated(page_results),
                 page_results |-> page_results]>>
    /\ UNCHANGED <<page_judgments, tasks, answers, unreadable, step4_result, vars_stage12, vars_fn>>

NextStep3 ==
    \/ Step3Start
    \/ \E t \in 1..Len(tasks) : Step3ImageDone(t)
    \/ Step3Finish

SpecStep3 == InitStep3 /\ [][NextStep3]_vars

(***************************************************************************)
(* Step4: PageSplitter and Step4Processor                                  *)
(***************************************************************************)
\* the answers of the page-count judgment the pages are evaluated with
PageCountAnswers ==
    {FailedResult} \cup
    {[success |-> TRUE, judgment |-> [page_count |-> PyInt(n), readability_issues |-> "none"]] :
        n \in {1, 2, 3}}

\* the two files split_image_left_right_with_overlap writes for a page
LeftPath(page_number) == Path(page_number, 1, "_forced_left")
RightPath(page_number) == Path(page_number, 1, "_forced_right")

\* mutant: every page judged to hold more than one page is split
ShouldSplitPage_TwoOrMore(page_data) ==
    /\ page_data.page_count # <<>> /\ page_data.page_count[1] >= 2
    /\ ~page_data.skip_processing
    /\ Len(page_data.processed_images) = 1

\* PageSplitter.should_split_page
ShouldSplitPage(page_data) ==
    /\ page_data.page_count = <<2>>
    /\ ~page_data.skip_processing
    /\ Len(page_data.processed_images) = 1

\* PageSplitter.split_page: the page_data it leaves and the result it returns
SplitPage(page_data) ==
    IF ~ShouldSplitPage(page_data)
    THEN [page_data |-> page_data,
          result |-> [success |-> TRUE, split |-> FALSE, page_number |-> page_data.page_number]]
    ELSE IF page_data.processed_images[1] \in unreadable
    THEN [page_data |-> page_data,
          result |-> [success |-> FALSE, split |-> FALSE, page_number |-> page_data.page_number]]
    ELSE [page_data |->
              [page_data EXCEPT
                  !.processed_images =
                      <<LeftPath(page_data.page_number), RightPath(page_data.page_number)>>,
                  !.processed_image = <<LeftPath(page_data.page_number)>>],
          result |-> [success |-> TRUE, split |-> TRUE, page_number |-> page_data.page_number]]

\* _evaluate_single_page up to its first await
Step4NewTask(pages, i) ==
    LET page_data == pages[i]
        first == [page |-> i,
                  pc |-> "awaiting",
                  proc_images |-> ProcImages(page_data),
                  img_idx |-> 1,
                  individual_results |-> <<>>,
                  result |-> [success |-> FALSE, page_number |-> page_data.page_number,
                              merged_judgment |-> <<>>, individual_results |-> <<>>,
                              error |-> TRUE]]
    IN  IF first.proc_images = <<>> THEN [first EXCEPT !.pc = "done"] ELSE first

\* the page_data a finished evaluation leaves ("ページデータに結果を記録")
Step4Commit(page_data, merged) ==
    IF merged.success
    THEN [page_data EXCEPT !.page_count = <<merged.merged_judgment[1].page_count>>,
                           !.step4_page_count_result = <<merged>>]
    ELSE [page_data EXCEPT !.page_count = <<1>>]

\* the lists of page_data dicts Step4 is called with: a skipped page may
\* carry a page_count of its own, and Step2 may have dewarped a page
Step4PageLists ==
    {[i \in 1..Len(pages) |->
        [pages[i] EXCEPT
            !.page_count = IF pages[i].skip_processing /\ i \in preset THEN <<2>> ELSE @,
            !.needs_dewarping = i \in dewarped,
            !.dewarping_applied = i \in dewarped]] :
        pages \in PageLists,
        preset \in SUBSET (1..Cardinality(PageNumbers)),
        dewarped \in SUBSET (1..Cardinality(PageNumbers))}

InitStep4 ==
    /\ page_judgments \in Step4PageLists
    /\ tasks = <<>>
    /\ answers = <<>>
    /\ unreadable \in SUBSET {Path(p, 1, "") : p \in PageNumbers}
    /\ step3_result = <<>>
    /\ step4_result = <<>>
    /\ IdleStage12
    /\ IdleMerge /\ IdleLR /\ IdleTile /\ IdleAngle /\ IdleCalc

\* process_pages up to "await asyncio.gather"
Step4Start ==
    /\ tasks = <<>> /\ step4_result = <<>>
    /\ ValidPages(page_judgments) # <<>>
    /\ LET valid_pages == ValidPages(page_judgments)
       IN  /\ tasks' = [t \in 1..Len(valid_pages) |-> Step4NewTask(page_judgments, valid_pages[t])]
           /\ answers' = [t \in 1..Len(valid_pages) |-> <<>>]
    /\ UNCHANGED <<page_judgments, unreadable, step3_result, step4_result, vars_stage12, vars_fn>>

\* a page task resumes with the judgment of its current image and either
\* awaits the next image or merges, commits the page and returns
Step4ImageJudged(t) ==
    /\ tasks[t].pc = "awaiting"
    /\ \E result \in PageCountAnswers :
          LET task == tasks[t]
              page_data == page_judgments[task.page]
              individual == Append(task.individual_results, result)
              merged == MergeIndividualResults(individual, page_data.page_number)
          IN  /\ answers' = [answers EXCEPT ![t] = Append(@, result)]
              /\ IF task.img_idx < Len(task.proc_images)
                 THEN /\ tasks' = [tasks EXCEPT ![t] =
                              [task EXCEPT !.img_idx = @ + 1, !.individual_results = individual]]
                      /\ UNCHANGED page_judgments
                 ELSE /\ tasks' = [tasks EXCEPT ![t] =
                              [task EXCEPT !.pc = "done", !.individual_results = individual,
                                           !.result = merged]]
                      /\ page_judgments' = [page_judgments EXCEPT ![task.page] =
                              Step4Commit(page_data, merged)]
    /\ UNCHANGED <<unreadable, step3_result, step4_result, vars_stage12, vars_fn>>

\* the except branch of _evaluate_single_page: an exception out of the image
\* loop ends the task with {success False, page_number, error}, no
\* page_count is recorded
Step4PageRaised(t) ==
    /\ tasks[t].pc = "awaiting"
    /\ tasks' = [tasks EXCEPT ![t] =
                    [@ EXCEPT !.pc = "done",
                              !.result = [success |-> FALSE,
                                          page_number |-> page_judgments[tasks[t].page].page_number,
                                          merged_judgment |-> <<>>,
                                          individual_results |-> <<>>,
                                          error |-> TRUE]]]
    /\ UNCHANGED <<page_judgments, answers, unreadable, step3_result, step4_result,
                   vars_stage12, vars_fn>>

\* PageSplitter.process_pages: split_page on every page of the list
SplitPages(pages) == [i \in 1..Len(pages) |-> SplitPage(pages[i])]

\* process_pages after gather: the forced split of the pages and the
\* returned dict
Step4Finish ==
    /\ step4_result = <<>>
    /\ \/ tasks # <<>> /\ AllTasksDone
       \/ tasks = <<>> /\ ValidPages(page_judgments) = <<>>
    /\ LET split == SplitPages(page_judgments)
           results == [i \in 1..Len(split) |-> split[i].result]
           page_results == [i \in 1..Len(split) |-> split[i].page_data]
       IN  /\ page_judgments' = page_results
           /\ step4_result' =
                 <<[success |-> TRUE,
                    total_pages |-> Len(page_results),
                    evaluation_results |-> GatheredResults,
                    split_result |->
                        [success |-> TRUE,
                         total_pages |-> Len(page_results),
                         split_count |-> Len(SelectSeq(results, LAMBDA r : r.split)),
                         results |-> results],
                    page_results |-> page_results]>>
    /\ UNCHANGED <<tasks, answers, unreadable, step3_result, vars_stage12, vars_fn>>

NextStep4 ==
    \/ Step4Start
    \/ \E t \in 1..Len(tasks) : Step4ImageJudged(t)
    \/ Step4Finish

SpecStep4 == InitStep4 /\ [][NextStep4]_vars

(***************************************************************************)
(* Step1: PDFProcessor                                                     *)
(***************************************************************************)
\* what a page of the document allows: "ok" loads and renders,
\* "unloadable" makes load_page raise, "unrenderable" loads but makes
\* convert_page_to_image fail
PageStates == {"ok", "unloadable", "unrenderable"}

RECURSIVE SeqsUpTo(_, _)
SeqsUpTo(S, n) ==
    IF n = 0 THEN {<<>>}
    ELSE LET shorter == SeqsUpTo(S, n - 1)
         IN  shorter \cup {Append(q, x) : q \in {r \in shorter : Len(r) = n - 1}, x \in S}

\* the documents process_pdf is called with
PdfDocuments ==
    {[opens |-> FALSE, pages |-> <<>>]} \cup
    {[opens |-> TRUE, pages |-> pages] : pages \in SeqsUpTo(PageStates, MaxPdfPages)}

\* PDFReader.get_page: the page, or None
GetPage(doc, page_num) ==
    doc.opens /\ page_num >= 0 /\ page_num < Len(doc.pages)
              /\ doc.pages[page_num + 1] # "unloadable"

\* PDFReader.validate_pdf: validation.get("valid")
ValidatePdf(doc) == doc.opens /\ Len(doc.pages) # 0 /\ GetPage(doc, 0)

\* the image file process_pdf writes for a page
ImageFile(page_number) == Path(page_number, 1, "")

\* ImageConverter.convert_page_from_doc with "image_file" added on success
ConvertPageFromDoc(doc, page_num) ==
    IF doc.pages[page_num + 1] = "ok"
    THEN [success |-> TRUE, page_number |-> page_num + 1,
          image_file |-> <<ImageFile(page_num + 1)>>, error |-> ""]
    ELSE [success |-> FALSE, page_number |-> page_num + 1,
          image_file |-> <<>>, error |-> "convert"]

\* the dict the except branch of process_pdf returns
PdfError == [success |-> FALSE, page_count |-> 0, successful_pages |-> 0, pages |-> <<>>]

InitStep1 ==
    /\ pdf_document \in PdfDocuments
    /\ step1 = IdleStep1
    /\ pdf_result = <<>>
    /\ step2_result = <<>>
    /\ page_judgments = <<>> /\ tasks = <<>> /\ answers = <<>> /\ unreadable = {}
    /\ step3_result = <<>> /\ step4_result = <<>>
    /\ IdleMerge /\ IdleLR /\ IdleTile /\ IdleAngle /\ IdleCalc

\* process_pdf up to the page loop: open_pdf and validate_pdf, a failure of
\* either raises and returns the error dict
OpenPdf ==
    /\ step1.pc = "idle" /\ pdf_result = <<>>
    /\ IF pdf_document.opens /\ ValidatePdf(pdf_document)
       THEN /\ step1' = [step1 EXCEPT !.pc = "loop"]
            /\ UNCHANGED pdf_result
       ELSE /\ step1' = [step1 EXCEPT !.pc = "done"]
            /\ pdf_result' = <<PdfError>>
    /\ UNCHANGED <<pdf_document, step2_result, page_judgments, tasks, answers, unreadable,
                   step3_result, step4_result, vars_fn>>

\* one iteration of "for page_num in range(total_pages)"
ProcessPage ==
    /\ step1.pc = "loop"
    /\ step1.page_num < Len(pdf_document.pages)
    /\ LET page_num == step1.page_num
           result == IF ~GetPage(pdf_document, page_num)
                     THEN [success |-> FALSE, page_number |-> page_num + 1,
                           image_file |-> <<>>, error |-> "page_size"]
                     ELSE ConvertPageFromDoc(pdf_document, page_num)
       IN  step1' = [step1 EXCEPT
                        !.page_num = @ + 1,
                        !.pages = Append(@, result),
                        !.successful_pages = IF result.success THEN @ + 1 ELSE @]
    /\ UNCHANGED <<pdf_document, pdf_result, step2_result, page_judgments, tasks, answers,
                   unreadable, step3_result, step4_result, vars_fn>>

\* process_pdf after the loop: close_pdf and the returned dict
ClosePdf ==
    /\ step1.pc = "loop"
    /\ step1.page_num = Len(pdf_document.pages)
    /\ step1' = [step1 EXCEPT !.pc = "done"]
    /\ pdf_result' = <<[success |-> step1.successful_pages > 0,
                        page_count |-> Len(pdf_document.pages),
                        successful_pages |-> step1.successful_pages,
                        pages |-> step1.pages]>>
    /\ UNCHANGED <<pdf_document, step2_result, page_judgments, tasks, answers, unreadable,
                   step3_result, step4_result, vars_fn>>

NextStep1 == OpenPdf \/ ProcessPage \/ ClosePdf

SpecStep1 == InitStep1 /\ [][NextStep1]_vars

(***************************************************************************)
(* Step2: ImageReprocessor, DewarpingEngine and Step2Processor             *)
(***************************************************************************)
\* the judgment dicts of the distortion judgment; a judgment may come
\* without its fields
DewarpJudgments ==
    {[needs_dewarping |-> <<>>, readability_issues |-> <<>>,
      has_something_out_of_document |-> <<>>]} \cup
    {[needs_dewarping |-> <<nd>>, readability_issues |-> <<r>>,
      has_something_out_of_document |-> <<out>>] :
        nd \in BOOLEAN, r \in {"none", "minor", "major", "Major"}, out \in BOOLEAN}

\* what LLMJudgment.evaluate_dewarping_need returns
JudgmentResults ==
    {[success |-> FALSE, judgment |-> <<>>]} \cup
    {[success |-> TRUE, judgment |-> <<j>>] : j \in DewarpJudgments}

\* judgment.get(key, default) of llm_result.get("judgment", {})
JudgmentGet(llm_result, key, default) ==
    IF llm_result.judgment = <<>> THEN default
    ELSE IF llm_result.judgment[1][key] = <<>> THEN default
    ELSE llm_result.judgment[1][key][1]

\* mutant: every readability issue is re-scanned
ShouldReprocess_AnyIssue(judgment_result) ==
    /\ judgment_result.success
    /\ Lower(JudgmentGet(judgment_result, "readability_issues", "")) \in {"minor", "major"}

\* ImageReprocessor.should_reprocess
ShouldReprocess(judgment_result) ==
    /\ judgment_result.success
    /\ Lower(JudgmentGet(judgment_result, "readability_issues", "")) = "major"

\* ImageReprocessor.reprocess_page: the file it renders
ReprocessedPath(page_number) == Path(page_number, 1, "_reprocessed_2x")

\* ImageReprocessor.reprocess_page
ReprocessPage(page_number, rendered) ==
    IF rendered
    THEN [success |-> TRUE, reprocessed_image_path |-> <<ReprocessedPath(page_number)>>]
    ELSE [success |-> FALSE, reprocessed_image_path |-> <<>>]

\* the output path _process_single_page hands to the dewarping engine
DewarpOutputPath(current_image) ==
    [current_image EXCEPT !.sfx = IF @ = "" THEN "_dewarped" ELSE "_reprocessed_2x_dewarped"]

\* DewarpingEngine.process_image, by what the corner detection and the
\* write of the corrected image do
DewarpProcessImage(image_path, output_path, outcome) ==
    CASE outcome = "corrected" ->
            [success |-> TRUE, skipped |-> FALSE, output_paths |-> <<output_path>>, error |-> FALSE]
      [] outcome = "skipped" ->
            [success |-> TRUE, skipped |-> TRUE, output_paths |-> <<output_path>>, error |-> FALSE]
      [] OTHER ->
            [success |-> FALSE, skipped |-> FALSE, output_paths |-> <<>>, error |-> TRUE]

\* the result dict _process_single_page starts with
Step2NewResult(page_number, image_path) ==
    [page_number |-> page_number,
     success |-> TRUE,
     error |-> FALSE,
     original_image |-> <<image_path>>,
     processed_image |-> <<image_path>>,
     processed_images |-> <<image_path>>,
     llm_result |-> <<>>,
     needs_dewarping |-> <<>>,
     readability_issues |-> <<>>,
     has_out_of_document |-> <<>>,
     reprocess_result |-> <<>>,
     reprocessed_at_scale |-> <<>>,
     dewarping_result |-> <<>>,
     dewarping_applied |-> <<>>]

\* mutant: the entry of an exception carries the number of the first page
Step2ErrorResult_FirstPage(page_number) ==
    [Step2NewResult(1, Path(1, 1, "")) EXCEPT
        !.success = FALSE, !.error = TRUE,
        !.original_image = <<>>, !.processed_image = <<>>, !.processed_images = <<>>]

\* the dict an exception leaves: page_number, success and error only
Step2ErrorResult(page_number) ==
    [Step2NewResult(page_number, Path(page_number, 1, "")) EXCEPT
        !.success = FALSE, !.error = TRUE,
        !.original_image = <<>>, !.processed_image = <<>>, !.processed_images = <<>>]

\* Step2-01: the judgment is recorded; a failed judgment returns at once
Step2Judged(result, llm_result) ==
    IF ~llm_result.success
    THEN [result EXCEPT !.llm_result = <<llm_result>>, !.success = FALSE, !.error = TRUE]
    ELSE [result EXCEPT
            !.llm_result = <<llm_result>>,
            !.needs_dewarping = <<JudgmentGet(llm_result, "needs_dewarping", FALSE)>>,
            !.readability_issues = <<JudgmentGet(llm_result, "readability_issues", "none")>>,
            !.has_out_of_document =
                <<JudgmentGet(llm_result, "has_something_out_of_document", FALSE)>>]

\* Step2-02: the commit of a re-scan result
Step2Reprocessed(result, reprocess_result) ==
    IF reprocess_result.success
    THEN [result EXCEPT
            !.reprocess_result = <<reprocess_result>>,
            !.reprocessed_at_scale = <<TRUE>>,
            !.processed_image = reprocess_result.reprocessed_image_path,
            !.processed_images = reprocess_result.reprocessed_image_path]
    ELSE [result EXCEPT
            !.reprocess_result = <<reprocess_result>>,
            !.reprocessed_at_scale = <<FALSE>>]

\* mutant: the dewarping engine is handed the original image
DewarpInput_Original(result) == result.original_image[1]

\* current_image = result["processed_image"]
DewarpInput(result) == result.processed_image[1]

\* mutant: the output path is committed also when the engine skipped
Step2Dewarped_SkippedReplaces(result, dewarp_result, output_path) ==
    IF dewarp_result.success
    THEN [result EXCEPT
            !.dewarping_result = <<dewarp_result>>,
            !.dewarping_applied = <<TRUE>>,
            !.processed_image = <<output_path>>,
            !.processed_images = dewarp_result.output_paths]
    ELSE [result EXCEPT
            !.dewarping_result = <<dewarp_result>>,
            !.dewarping_applied = <<FALSE>>]

\* Step2-03: the commit of a dewarping result
Step2Dewarped(result, dewarp_result, output_path) ==
    IF dewarp_result.success
    THEN IF ~dewarp_result.skipped
         THEN [result EXCEPT
                 !.dewarping_result = <<dewarp_result>>,
                 !.dewarping_applied = <<TRUE>>,
                 !.processed_image = <<output_path>>,
                 !.processed_images = dewarp_result.output_paths]
         ELSE [result EXCEPT
                 !.dewarping_result = <<dewarp_result>>,
                 !.dewarping_applied = <<TRUE>>]
    ELSE [result EXCEPT
            !.dewarping_result = <<dewarp_result>>,
            !.dewarping_applied = <<FALSE>>]

\* what the environment answers to one page task: the judgment (or an
\* exception out of it), the re-scan and the dewarping; "unused" where the
\* page task makes no such call
Step2Answers ==
    {a \in [raised : BOOLEAN, llm : JudgmentResults,
            reprocess : {"ok", "failed", "unused"},
            dewarp : {"corrected", "skipped", "error", "unused"}] :
        /\ a.raised => ~a.llm.success
        /\ (a.reprocess = "unused") = ~(~a.raised /\ ShouldReprocess(a.llm))
        /\ (a.dewarp = "unused") =
              ~(~a.raised /\ a.llm.success /\ JudgmentGet(a.llm, "needs_dewarping", FALSE))}

\* _process_single_page after the judgment returned: the result dict and
\* the calls made to the re-scan and the dewarping engine, in order
Step2ProcessSinglePage(page_number, image_path, a) ==
    LET judged == Step2Judged(Step2NewResult(page_number, image_path), a.llm)
        rescan == ShouldReprocess(a.llm)
        reprocessed ==
            IF rescan
            THEN Step2Reprocessed(judged, ReprocessPage(page_number, a.reprocess = "ok"))
            ELSE [judged EXCEPT !.reprocessed_at_scale = <<FALSE>>]
        dewarp == reprocessed.needs_dewarping = <<TRUE>>
        current_image == DewarpInput(reprocessed)
        output_path == DewarpOutputPath(current_image)
        dewarped ==
            IF dewarp
            THEN Step2Dewarped(reprocessed,
                               DewarpProcessImage(current_image, output_path, a.dewarp),
                               output_path)
            ELSE [reprocessed EXCEPT !.dewarping_applied = <<FALSE>>]
    IN  IF a.raised
        THEN [result |-> Step2ErrorResult(page_number), calls |-> <<>>]
        ELSE IF ~a.llm.success
        THEN [result |-> judged, calls |-> <<>>]
        ELSE [result |-> dewarped,
              calls |-> (IF rescan THEN <<[op |-> "rescan", image |-> image_path]>> ELSE <<>>) \o
                        (IF dewarp THEN <<[op |-> "dewarp", image |-> current_image]>> ELSE <<>>)]

\* the Step1 results Step2 is called with: one entry per page, in any
\* order, rendered or not
Step2Inputs ==
    LET N == Cardinality(PageNumbers)
    IN  {[success |-> \E i \in 1..N : ok[i],
          page_count |-> N,
          successful_pages |-> Cardinality({i \in 1..N : ok[i]}),
          pages |-> [i \in 1..N |->
                        IF ok[i]
                        THEN [success |-> TRUE, page_number |-> ord[i],
                              image_file |-> <<ImageFile(ord[i])>>, error |-> ""]
                        ELSE [success |-> FALSE, page_number |-> ord[i],
                              image_file |-> <<>>, error |-> "convert"]]] :
            ord \in {f \in [1..N -> PageNumbers] : \A i, j \in 1..N : f[i] = f[j] => i = j},
            ok \in [1..N -> BOOLEAN]}

\* the indices of the pages process_pages creates a task for
Step2ValidPages(pages) ==
    SelectSeq([i \in 1..Len(pages) |-> i],
              LAMBDA i : /\ pages[i].success
                         /\ pages[i].image_file # <<>>
                         /\ pages[i].image_file[1] \notin unreadable)

SortByPageNumber_Unsorted(results) == results

\* page_results.sort(key=page_number): a stable sort
RECURSIVE SortByPageNumber(_)
SortByPageNumber(results) ==
    IF results = <<>> THEN <<>>
    ELSE LET least == CHOOSE i \in 1..Len(results) :
                         \A j \in 1..Len(results) :
                             /\ results[i].page_number <= results[j].page_number
                             /\ results[i].page_number = results[j].page_number => i <= j
             rest == [k \in 1..(Len(results) - 1) |->
                         IF k < least THEN results[k] ELSE results[k + 1]]
         IN  <<results[least]>> \o SortByPageNumber(rest)

\* the readability levels _generate_summary counts the pages under
SummaryLevels == {"none", "minor", "major", "Major", "unknown"}

\* Step2Processor._generate_summary
Step2Summary(page_results) ==
    IF page_results = <<>> THEN <<>>
    ELSE LET Count(P(_)) == Cardinality({i \in 1..Len(page_results) : P(page_results[i])})
             IsSuccess(r) == r.success
             Needs(r) == r.needs_dewarping = <<TRUE>>
             Reprocessed(r) == r.reprocessed_at_scale = <<TRUE>>
             Dewarped(r) == r.dewarping_applied = <<TRUE>>
         IN  <<[total_pages |-> Len(page_results),
                successful_pages |-> Count(IsSuccess),
                needs_dewarping_count |-> Count(Needs),
                reprocessed_count |-> Count(Reprocessed),
                dewarped_count |-> Count(Dewarped),
                readability_distribution |->
                    [level \in SummaryLevels |->
                        Cardinality({i \in 1..Len(page_results) :
                            level = (IF page_results[i].readability_issues = <<>>
                                     THEN "unknown"
                                     ELSE page_results[i].readability_issues[1])})]]>>

InitStep2 ==
    /\ pdf_result \in {<<r>> : r \in Step2Inputs}
    /\ unreadable \in SUBSET {ImageFile(p) : p \in PageNumbers}
    /\ pdf_document = [opens |-> FALSE, pages |-> <<>>]
    /\ step1 = IdleStep1
    /\ step2_result = <<>>
    /\ page_judgments = <<>> /\ tasks = <<>> /\ answers = <<>>
    /\ step3_result = <<>> /\ step4_result = <<>>
    /\ IdleMerge /\ IdleLR /\ IdleTile /\ IdleAngle /\ IdleCalc

\* process_pages up to "await asyncio.gather": every page task has called
\* the judgment on its image
Step2Start ==
    /\ tasks = <<>> /\ step2_result = <<>>
    /\ Step2ValidPages(pdf_result[1].pages) # <<>>
    /\ LET pages == pdf_result[1].pages
           valid_pages == Step2ValidPages(pages)
       IN  /\ tasks' = [t \in 1..Len(valid_pages) |->
                 LET page_info == pages[valid_pages[t]]
                 IN  [page |-> valid_pages[t],
                      pc |-> "awaiting",
                      calls |-> <<[op |-> "judge", image |-> page_info.image_file[1]]>>,
                      result |-> Step2NewResult(page_info.page_number, page_info.image_file[1])]]
           /\ answers' = [t \in 1..Len(valid_pages) |-> <<>>]
    /\ UNCHANGED <<page_judgments, unreadable, step3_result, step4_result,
                   pdf_document, step1, pdf_result, step2_result, vars_fn>>

\* a page task resumes with its judgment and runs to its return: re-scan
\* and dewarping are synchronous calls
Step2PageJudged(t) ==
    /\ tasks[t].pc = "awaiting"
    /\ \E a \in Step2Answers :
          LET task == tasks[t]
              done == Step2ProcessSinglePage(task.result.page_number,
                                             task.result.original_image[1], a)
          IN  /\ answers' = [answers EXCEPT ![t] = <<a>>]
              /\ tasks' = [tasks EXCEPT ![t] =
                    [task EXCEPT !.pc = "done",
                                 !.calls = @ \o done.calls,
                                 !.result = done.result]]
    /\ UNCHANGED <<page_judgments, unreadable, step3_result, step4_result,
                   pdf_document, step1, pdf_result, step2_result, vars_fn>>

\* process_pages after gather, or without any task: the sorted page
\* results and the returned dict
Step2Finish ==
    /\ step2_result = <<>>
    /\ \/ tasks # <<>> /\ AllTasksDone
       \/ tasks = <<>> /\ Step2ValidPages(pdf_result[1].pages) = <<>>
    /\ LET pages == SelectSeq(pdf_result[1].pages, LAMBDA p : p.success)
           page_results == SortByPageNumber(GatheredResults)
       IN  step2_result' =
              IF pages = <<>>
              THEN <<[success |-> FALSE, total_pages |-> 0, processed_pages |-> 0,
                      successful_pages |-> 0, page_results |-> <<>>, summary |-> <<>>]>>
              ELSE <<[success |-> TRUE,
                      total_pages |-> Len(pages),
                      processed_pages |-> Len(page_results),
                      successful_pages |->
                          Len(SelectSeq(page_results, LAMBDA r : r.success)),
                      page_results |-> page_results,
                      summary |-> Step2Summary(page_results)]>>
    /\ UNCHANGED <<page_judgments, tasks, answers, unreadable, step3_result, step4_result,
                   pdf_document, step1, pdf_result, vars_fn>>

NextStep2 ==
    \/ Step2Start
    \/ \E t \in 1..Len(tasks) : Step2PageJudged(t)
    \/ Step2Finish

SpecStep2 == InitStep2 /\ [][NextStep2]_vars

(***************************************************************************)
(* Step1: DPICalculator                                                    *)
(***************************************************************************)
\* DPICalculator.__init__: the defaults and a second configuration
DpiConfigs ==
    {[target_size |-> <<2048, 2560>>, min_dpi |-> 50, max_dpi |-> 600, default_dpi |-> 300],
     [target_size |-> <<1024, 1024>>, min_dpi |-> 72, max_dpi |-> 300, default_dpi |-> 150]}

\* the page widths and heights, in points
PageSides == {k * SideStep : k \in 0..MaxSideSteps}

\* the page is measured as it is and scaled to twice its size
Scales == {1, 2}

\* min(width_dpi, height_dpi) as the fraction <<numerator, denominator>>
UnclampedDpi(cfg, page_width, page_height) ==
    LET width_dpi == <<cfg.target_size[1] * 72, page_width>>
        height_dpi == <<cfg.target_size[2] * 72, page_height>>
    IN  IF width_dpi[1] * height_dpi[2] <= height_dpi[1] * width_dpi[2]
        THEN width_dpi ELSE height_dpi

\* mutant: the lower clamp bound is not applied
CalculateOptimalDpi_NoMinClamp(cfg, page_width, page_height) ==
    IF page_width <= 0 \/ page_height <= 0 THEN cfg.default_dpi
    ELSE LET optimal == UnclampedDpi(cfg, page_width, page_height)
         IN  IF optimal[1] > cfg.max_dpi * optimal[2] THEN cfg.max_dpi
             ELSE optimal[1] \div optimal[2]

\* mutant: the DPI is rounded to the nearest integer
CalculateOptimalDpi_Rounded(cfg, page_width, page_height) ==
    IF page_width <= 0 \/ page_height <= 0 THEN cfg.default_dpi
    ELSE LET optimal == UnclampedDpi(cfg, page_width, page_height)
         IN  IF optimal[1] > cfg.max_dpi * optimal[2] THEN cfg.max_dpi
             ELSE IF optimal[1] < cfg.min_dpi * optimal[2] THEN cfg.min_dpi
             ELSE (2 * optimal[1] + optimal[2]) \div (2 * optimal[2])

\* DPICalculator.calculate_optimal_dpi:
\* int(max(min_dpi, min(max_dpi, min(width_dpi, height_dpi))))
CalculateOptimalDpi(cfg, page_width, page_height) ==
    IF page_width <= 0 \/ page_height <= 0 THEN cfg.default_dpi
    ELSE LET optimal == UnclampedDpi(cfg, page_width, page_height)
         IN  IF optimal[1] > cfg.max_dpi * optimal[2] THEN cfg.max_dpi
             ELSE IF optimal[1] < cfg.min_dpi * optimal[2] THEN cfg.min_dpi
             ELSE optimal[1] \div optimal[2]

InitDPI ==
    /\ dpi_calculator \in DpiConfigs
    /\ page_size \in [width : PageSides, height : PageSides]
    /\ optimal_dpi = [k \in Scales |-> <<>>]
    /\ IdleMerge /\ IdleLR /\ IdleTile /\ IdleAngle /\ IdlePages /\ IdleOCR /\ IdleLate /\ IdleRun

\* calculate_optimal_dpi is called with the page size times scale
CalculateDpi(scale) ==
    /\ optimal_dpi[scale] = <<>>
    /\ optimal_dpi' = [optimal_dpi EXCEPT ![scale] =
          <<CalculateOptimalDpi(dpi_calculator, scale * page_size.width,
                                scale * page_size.height)>>]
    /\ UNCHANGED <<dpi_calculator, page_size, vars_ocr, vars_late, vars_merge, vars_lr, vars_tile, vars_angle, vars_pages, vars_run>>

NextDPI == \E scale \in Scales : CalculateDpi(scale)

SpecDPI == InitDPI /\ [][NextDPI]_vars

(***************************************************************************)
(* Step6: the image lists of the two OCR engines                           *)
(***************************************************************************)
\* the image entries organize_split_results creates for one source image
OriginalImage ==
    [image_type |-> "original", split_index |-> 0, image_path |-> Path(1, 0, "_original")]
SplitImage(k) ==
    [image_type |-> "split", split_index |-> k, image_path |-> Path(1, k, "_split")]

\* every order of the elements of a set
Orders(S) ==
    {f \in [1..Cardinality(S) -> S] :
        \A i, j \in 1..Cardinality(S) : f[i] = f[j] => i = j}

\* the images lists of the group records: up to MaxTiles tiles, with or
\* without the whole image, in any order
OcrGroups ==
    UNION {Orders({SplitImage(k) : k \in 1..n} \cup whole) :
              n \in 0..MaxTiles, whole \in {{}, {OriginalImage}}}

\* split_images.sort(key=split_index): a stable sort
RECURSIVE SortBySplitIndex(_)
SortBySplitIndex(images) ==
    IF images = <<>> THEN <<>>
    ELSE LET least == CHOOSE i \in 1..Len(images) :
                         \A j \in 1..Len(images) :
                             /\ images[i].split_index <= images[j].split_index
                             /\ images[i].split_index = images[j].split_index => i <= j
             rest == [k \in 1..(Len(images) - 1) |->
                         IF k < least THEN images[k] ELSE images[k + 1]]
         IN  <<images[least]>> \o SortBySplitIndex(rest)

ImagePathsOf(images) == [i \in 1..Len(images) |-> images[i].image_path]

\* GeminiOCREngine.extract_text_from_single_group: image_paths
GeminiImagePaths(images) ==
    LET original_images == SelectSeq(images, LAMBDA img : img.image_type = "original")
        split_images == SortBySplitIndex(SelectSeq(images, LAMBDA img : img.image_type = "split"))
    IN  (IF original_images # <<>> THEN <<original_images[1].image_path>> ELSE <<>>) \o
        ImagePathsOf(split_images)

\* mutant: the tiles are taken in the order of the group record
DocAiImagePaths_Unsorted(images) ==
    LET original_images == SelectSeq(images, LAMBDA img : img.image_type = "original")
        split_images == SelectSeq(images, LAMBDA img : img.image_type = "split")
    IN  (IF original_images # <<>> THEN <<original_images[1].image_path>> ELSE <<>>) \o
        ImagePathsOf(split_images)

\* DocumentAIOCREngine.process_group_images: image_paths
DocAiImagePaths(images) ==
    LET original_images == SelectSeq(images, LAMBDA img : img.image_type = "original")
        split_images == SortBySplitIndex(SelectSeq(images, LAMBDA img : img.image_type = "split"))
    IN  (IF original_images # <<>> THEN <<original_images[1].image_path>> ELSE <<>>) \o
        ImagePathsOf(split_images)

InitOCR ==
    /\ ocr_group \in OcrGroups
    /\ ocr_missing \in SUBSET {ocr_group[i].image_path : i \in 1..Len(ocr_group)}
    /\ gemini_paths = <<>>
    /\ docai_paths = <<>>
    /\ IdleMerge /\ IdleLR /\ IdleTile /\ IdleAngle /\ IdlePages /\ IdleDPI /\ IdleLate /\ IdleRun

\* extract_text_from_single_group and extract_text_from_images up to the
\* API call: the list built from the group and the existing files sent
GeminiExtractGroup ==
    /\ gemini_paths = <<>>
    /\ LET image_paths == GeminiImagePaths(ocr_group)
       IN  gemini_paths' =
              <<[image_paths |-> image_paths,
                 valid_image_paths |-> SelectSeq(image_paths, LAMBDA path : path \notin ocr_missing)]>>
    /\ UNCHANGED <<ocr_group, ocr_missing, docai_paths, vars_dpi, vars_late, vars_merge, vars_lr,
                   vars_tile, vars_angle, vars_pages, vars_run>>

\* process_group_images: the list built from the group and the
\* individual results, one per image in list order, labelled by position
DocAiProcessGroup ==
    /\ docai_paths = <<>>
    /\ LET image_paths == DocAiImagePaths(ocr_group)
       IN  docai_paths' =
              <<[image_paths |-> image_paths,
                 individual_results |->
                    [i \in 1..Len(image_paths) |->
                        [image_path |-> image_paths[i],
                         image_type |-> IF i = 1 THEN "original" ELSE "split",
                         split_index |-> i - 1,
                         success |-> image_paths[i] \notin ocr_missing]]]>>
    /\ UNCHANGED <<ocr_group, ocr_missing, gemini_paths, vars_dpi, vars_late, vars_merge, vars_lr,
                   vars_tile, vars_angle, vars_pages, vars_run>>

NextOCR == GeminiExtractGroup \/ DocAiProcessGroup

SpecOCR == InitOCR /\ [][NextOCR]_vars

(***************************************************************************)
(* Session directories, Step6 (OCR of the groups by both engines) and      *)
(* Step7 (integration of the per-group text files).  A directory path is   *)
(* the list of its components; a text file is [dir, name, content] with    *)
(* name = [group_key, kind] and content "text" or "" as read().strip()     *)
(* gives it.                                                               *)
(***************************************************************************)
\* DirectoryManager.create_session_directories: the map of a new session
CreateSessionDirectories ==
    [dir_name \in {"converted_images", "llm_judgments", "dewarped", "split_images",
                   "super_resolved", "final_results"} |-> <<"output", dir_name, "session">>]

\* the "if key not in session_dirs" blocks of process_step5_results and
\* process_ocr_groups; the map has no "session_id" entry and
\* final_results_dir is not empty, so the elif branch applies
AddSessionDir(dirs, key) ==
    IF key \in DOMAIN dirs THEN dirs
    ELSE dirs @@ (key :> Append(dirs["final_results"], key))

\* session_dirs.get(key, session_dirs["final_results"])
OutputDir(dirs, key) == IF key \in DOMAIN dirs THEN dirs[key] ELSE dirs["final_results"]

\* the group keys create_ocr_groups builds, page_{page:03d}_mask{mask}, as
\* [page, mask]
GroupKeys == {[page |-> 1, mask |-> 1], [page |-> 1, mask |-> 2],
              [page |-> 999, mask |-> 1], [page |-> 1000, mask |-> 1]}

\* the keys of a set in the order create_ocr_groups inserts them for pages
\* in document order: by page, then by source image
RECURSIVE DocumentOrder(_)
DocumentOrder(keys) ==
    IF keys = {} THEN <<>>
    ELSE LET first == CHOOSE k \in keys :
                         \A l \in keys : k.page < l.page \/ (k.page = l.page /\ k.mask <= l.mask)
         IN  <<first>> \o DocumentOrder(keys \ {first})

\* the groups dict Step6 is called with, as the list of its keys
Step6Groups == {DocumentOrder(keys) : keys \in {S \in SUBSET GroupKeys : Cardinality(S) <= MaxGroups}}

Engines == {"gemini", "document_ai"}

\* per engine: the session_dirs key of its result directory and the kind
\* of _create_output_filename, {group_key}_{kind}.txt
ResultFiles(engine) ==
    IF engine = "gemini" THEN [dir_key |-> "ocr_results", kind |-> "ocr_result"]
    ELSE [dir_key |-> "document_ai_results", kind |-> "documentai_result"]

\* process_single_group_gemini / process_single_group_document_ai: the
\* returned dict for what the engine answers: recognised text ("text"), a
\* success without any text ("empty"), a failure dict ("failed") or an
\* exception ("raised"); failures and exceptions both give success False
ProcessSingleGroup(group_key, outcome) ==
    [group_key |-> group_key,
     success |-> outcome \in {"text", "empty"},
     text |-> IF outcome = "text" THEN "text" ELSE ""]

\* save_ocr_result / save_document_ai_result: the text file written
SavedTextFile(dirs, engine, group_key, content) ==
    [dir |-> OutputDir(dirs, ResultFiles(engine).dir_key),
     name |-> [group_key |-> group_key, kind |-> ResultFiles(engine).kind],
     content |-> content]

\* mutant: the semaphore never blocks
SemaphoreFree_Always(value) == TRUE

\* mutant: the last slot of the semaphore is never handed out
SemaphoreFree_AboveOne(value) == value > 1

\* asyncio.Semaphore: acquire() returns without waiting while the value is positive
SemaphoreFree(value) == value > 0

\* mutant: a group counts as successful for an engine only if both engines succeeded
Step6Successful_BothEngines(combined, engine) ==
    LET rows == SelectSeq(combined, LAMBDA c : \A e \in Engines : c[e].success)
    IN  [i \in 1..Len(rows) |-> rows[i][engine]]

\* gemini_successful_results / document_ai_successful_results
Step6Successful(combined, engine) ==
    LET rows == SelectSeq(combined, LAMBDA c : c[engine].success)
    IN  [i \in 1..Len(rows) |-> rows[i][engine]]

\* mutant: a group is listed as failed for an engine when either engine failed
Step6Failed_EitherEngine(combined, engine) ==
    LET rows == SelectSeq(combined, LAMBDA c : \E e \in Engines : ~c[e].success)
    IN  [i \in 1..Len(rows) |-> rows[i][engine]]

\* gemini_failed_results / document_ai_failed_results
Step6Failed(combined, engine) ==
    LET rows == SelectSeq(combined, LAMBDA c : ~c[engine].success)
    IN  [i \in 1..Len(rows) |-> rows[i][engine]]


InitStep6 ==
    /\ session_dirs = CreateSessionDirectories
    /\ step6 \in {[IdleStep6 EXCEPT !.max_concurrent_ocr = k, !.groups = groups] :
                     k \in 1..MaxConcurrentOcr, groups \in Step6Groups}
    /\ group_tasks = <<>>
    /\ disk = [dirs |-> {}, files |-> {}, result |-> {}]
    /\ step6_result = <<>>
    /\ step7_result = <<>>
    /\ IdleMerge /\ IdleLR /\ IdleTile /\ IdleAngle /\ IdlePages /\ IdleDPI /\ IdleOCR /\ IdleRun

\* process_step5_results and process_ocr_groups up to the gather: the
\* result directories are entered into session_dirs, an empty groups dict
\* returns at once, otherwise one task per group is created
Step6Start ==
    /\ step6.pc = "idle"
    /\ IF step6.groups = <<>>
       THEN /\ session_dirs' = AddSessionDir(session_dirs, "ocr_results")
            /\ step6' = [step6 EXCEPT !.pc = "done"]
            /\ step6_result' = <<[ocr_results |-> [e \in Engines |-> <<>>],
                                  failed_results |-> [e \in Engines |-> <<>>]]>>
            /\ UNCHANGED group_tasks
       ELSE /\ session_dirs' = AddSessionDir(AddSessionDir(session_dirs, "ocr_results"),
                                             "document_ai_results")
            /\ step6' = [step6 EXCEPT !.pc = "gather", !.semaphore = step6.max_concurrent_ocr]
            /\ group_tasks' = [g \in 1..Len(step6.groups) |->
                                  [pc |-> "waiting", gemini |-> <<>>, document_ai |-> <<>>]]
            /\ UNCHANGED step6_result
    /\ UNCHANGED <<disk, step7_result, vars_dpi, vars_ocr, vars_merge, vars_lr,
                   vars_tile, vars_angle, vars_pages, vars_run>>

\* "async with semaphore" of process_group_with_both_engines: entered
Step6Acquire(g) ==
    /\ step6.pc = "gather"
    /\ group_tasks[g].pc = "waiting"
    /\ SemaphoreFree(step6.semaphore)
    /\ step6' = [step6 EXCEPT !.semaphore = @ - 1]
    /\ group_tasks' = [group_tasks EXCEPT ![g].pc = "running"]
    /\ UNCHANGED <<session_dirs, disk, step6_result, step7_result, vars_dpi,
                   vars_ocr, vars_merge, vars_lr, vars_tile, vars_angle, vars_pages, vars_run>>

\* one engine's task of a running group completes: the engine answers and
\* a success is saved as the group's text file
Step6EngineDone(g, engine) ==
    /\ step6.pc = "gather"
    /\ group_tasks[g].pc = "running"
    /\ group_tasks[g][engine] = <<>>
    /\ \E outcome \in {"text", "empty", "failed", "raised"} :
          LET result == ProcessSingleGroup(step6.groups[g], outcome)
              file == SavedTextFile(session_dirs, engine, step6.groups[g], result.text)
          IN  /\ group_tasks' = [group_tasks EXCEPT ![g][engine] = <<result>>]
              /\ disk' = IF result.success
                         THEN [disk EXCEPT !.dirs = @ \cup {file.dir}, !.files = @ \cup {file}]
                         ELSE disk
    /\ UNCHANGED <<session_dirs, step6, step6_result, step7_result, vars_dpi,
                   vars_ocr, vars_merge, vars_lr, vars_tile, vars_angle, vars_pages, vars_run>>

\* the inner gather of a group has both results: the group task leaves
\* the "async with" block and returns
Step6Release(g) ==
    /\ step6.pc = "gather"
    /\ group_tasks[g].pc = "running"
    /\ group_tasks[g].gemini # <<>> /\ group_tasks[g].document_ai # <<>>
    /\ step6' = [step6 EXCEPT !.semaphore = @ + 1]
    /\ group_tasks' = [group_tasks EXCEPT ![g].pc = "done"]
    /\ UNCHANGED <<session_dirs, disk, step6_result, step7_result, vars_dpi,
                   vars_ocr, vars_merge, vars_lr, vars_tile, vars_angle, vars_pages, vars_run>>

\* process_ocr_groups after the gather: the results are sorted into the
\* four lists and both summaries are saved
Step6Finish ==
    /\ step6.pc = "gather"
    /\ \A g \in 1..Len(group_tasks) : group_tasks[g].pc = "done"
    /\ LET combined == [g \in 1..Len(group_tasks) |->
                           [e \in Engines |-> group_tasks[g][e][1]]]
       IN  step6_result' =
              <<[ocr_results |-> [e \in Engines |-> Step6Successful(combined, e)],
                 failed_results |-> [e \in Engines |-> Step6Failed(combined, e)]]>>
    /\ disk' = [disk EXCEPT !.dirs = @ \cup {OutputDir(session_dirs, ResultFiles(e).dir_key) : e \in Engines}]
    /\ step6' = [step6 EXCEPT !.pc = "done"]
    /\ UNCHANGED <<session_dirs, group_tasks, step7_result, vars_dpi, vars_ocr,
                   vars_merge, vars_lr, vars_tile, vars_angle, vars_pages, vars_run>>

\* str(n) as the list of the code points of its digits
RECURSIVE Digits(_)
Digits(n) == IF n < 10 THEN <<48 + n>> ELSE Digits(n \div 10) \o <<48 + (n % 10)>>

\* the file name {group_key}_{kind}.txt as the list of its code points,
\* with group_key = f"page_{page:03d}_mask{mask}"
FileNameChars(name) ==
    LET page == Digits(name.group_key.page)
        padded == IF Len(page) >= 3 THEN page ELSE [i \in 1..(3 - Len(page)) |-> 48] \o page
        kind == IF name.kind = "ocr_result"
                THEN <<111, 99, 114, 95, 114, 101, 115, 117, 108, 116>>
                ELSE <<100, 111, 99, 117, 109, 101, 110, 116, 97, 105, 95, 114, 101, 115, 117, 108, 116>>
    IN  <<112, 97, 103, 101, 95>> \o padded \o <<95, 109, 97, 115, 107>> \o
        Digits(name.group_key.mask) \o <<95>> \o kind \o <<46, 116, 120, 116>>

\* a < b for Python strings: the order of the code points at the first
\* difference, a proper prefix being smaller
StrLess(a, b) ==
    \E i \in 1..(Len(a) + 1) :
        /\ \A j \in 1..(i - 1) : j <= Len(b) /\ a[j] = b[j]
        /\ i <= Len(b)
        /\ (i > Len(a) \/ a[i] < b[i])

\* glob.glob(pattern) followed by txt_files.sort(): the files of one
\* directory and kind in ascending order of their names
RECURSIVE SortFileNames(_)
SortFileNames(names) ==
    IF names = {} THEN <<>>
    ELSE LET least == CHOOSE n \in names :
                         \A m \in names \ {n} : StrLess(FileNameChars(n), FileNameChars(m))
         IN  <<least>> \o SortFileNames(names \ {least})

\* collect_gemini_texts / collect_document_ai_texts on a directory: the
\* non-empty texts in sorted file order, each named by its group
CollectTexts(files, dir, kind) ==
    LET found == {f \in files : f.dir = dir /\ f.name.kind = kind}
        txt_files == SortFileNames({f.name : f \in found})
        read == [i \in 1..Len(txt_files) |-> CHOOSE f \in found : f.name = txt_files[i]]
        collected == SelectSeq(read, LAMBDA f : f.content # "")
    IN  [success |-> collected # <<>>,
         collected_texts |-> [i \in 1..Len(collected) |-> collected[i].name.group_key],
         total_files |-> Len(txt_files)]

\* _create_error_result
Step7ErrorResult ==
    [error |-> TRUE, output_files |-> <<>>,
     integrated_text |-> [e \in Engines |-> <<>>]]

\* mutant: only the Gemini text is written
SaveIntegratedResults_GeminiOnly(integrated_text) ==
    (IF integrated_text["gemini"] # <<>> THEN <<"gemini_integrated">> ELSE <<>>) \o
    <<"integration_metadata">>

\* save_integrated_results: the files written to the result directory; an
\* integrated text is the list of the groups whose texts it joins
SaveIntegratedResults(integrated_text) ==
    (IF integrated_text["gemini"] # <<>> THEN <<"gemini_integrated">> ELSE <<>>) \o
    (IF integrated_text["document_ai"] # <<>> THEN <<"document_ai_integrated">> ELSE <<>>) \o
    <<"integration_metadata">>

\* Step7Processor.process_step6_results
Step7Process ==
    /\ step6.pc = "done"
    /\ step7_result = <<>>
    /\ LET exists(key) == key \in DOMAIN session_dirs /\ session_dirs[key] \in disk.dirs
           collection == [e \in Engines |->
                             CollectTexts(disk.files, session_dirs[ResultFiles(e).dir_key],
                                          ResultFiles(e).kind)]
       IN  IF ~exists("ocr_results") \/ ~exists("document_ai_results")
           THEN /\ step7_result' = <<Step7ErrorResult>>
                /\ UNCHANGED disk
           ELSE IF \A e \in Engines : ~collection[e].success
           THEN /\ step7_result' = <<Step7ErrorResult>>
                /\ UNCHANGED disk
           ELSE LET integrated_text == [e \in Engines |-> collection[e].collected_texts]
                    saved_files == SaveIntegratedResults(integrated_text)
                IN  /\ step7_result' = <<[error |-> FALSE, output_files |-> saved_files,
                                          integrated_text |-> integrated_text]>>
                    /\ disk' = [disk EXCEPT !.result = {saved_files[i] : i \in 1..Len(saved_files)}]
    /\ UNCHANGED <<session_dirs, step6, group_tasks, step6_result, vars_dpi, vars_ocr,
                   vars_merge, vars_lr, vars_tile, vars_angle, vars_pages, vars_run>>

NextStep6 ==
    \/ Step6Start
    \/ \E g \in 1..Len(group_tasks) :
          Step6Acquire(g) \/ Step6Release(g) \/ \E engine \in Engines : Step6EngineDone(g, engine)
    \/ Step6Finish
    \/ Step7Process

SpecStep6 == InitStep6 /\ [][NextStep6]_vars

\* the event loop resumes every task that can run: an engine call that
\* returned, a task the semaphore woke, the gather whose tasks are done
NextOcrGroups ==
    \/ Step6Start
    \/ \E g \in 1..Len(group_tasks) :
          Step6Acquire(g) \/ Step6Release(g) \/ \E engine \in Engines : Step6EngineDone(g, engine)
    \/ Step6Finish

\* process_ocr_groups on the first n groups of a document, n <= MaxLiveGroups
InitStep6Fair ==
    /\ InitStep6
    /\ step6.groups \in {SubSeq(DocumentOrder(GroupKeys), 1, n) : n \in 0..MaxLiveGroups}

SpecStep6Fair == InitStep6Fair /\ [][NextOcrGroups]_vars /\ WF_vars(NextOcrGroups)

(***************************************************************************)
(* DocumentOCRPipeline.process_pdf: Step1, Step2 and Step3 of one PDF      *)
(***************************************************************************)
\* the dict a stage returns without running: its processor is missing or
\* not ready
StepSkipped == [success |-> FALSE, page_results |-> <<>>]

\* the pipeline_result dict process_pdf starts with; final_results is an
\* Optional, empty for {}
NewPipelineResult ==
    [session_id |-> "session",
     session_dirs |-> CreateSessionDirectories,
     steps |-> [pdf_conversion |-> <<>>, step2_processing |-> <<>>, step3_processing |-> <<>>],
     final_results |-> <<>>,
     success |-> FALSE,
     error |-> FALSE]

\* mutant: the failure of any step raises
PipelineAborts_AnyStep(step, result) == ~result.success

\* whether process_pdf raises on the result of a step: on a failed PDF
\* conversion only, a failed Step2 or Step3 is logged
PipelineAborts(step, result) == step = "pdf_conversion" /\ ~result.success

\* the except branch of process_pdf
PipelineError(pipeline_result) == [pipeline_result EXCEPT !.error = TRUE]

\* "最終結果を設定": the result of the last successful step
FinalResults(pdf, step2, step3) ==
    IF step3.success THEN step3 ELSE IF step2.success THEN step2 ELSE pdf

\* a page result of Step2 as Step3 reads it: .get() of a missing key is
\* the empty Optional or False
Step3PageData(result) ==
    [PageData(result.page_number, 0, FALSE) EXCEPT
        !.processed_images = result.processed_images,
        !.processed_image = result.processed_image,
        !.needs_dewarping = (result.needs_dewarping = <<TRUE>>),
        !.dewarping_applied = (result.dewarping_applied = <<TRUE>>)]

\* the answers the pages of a pipeline run get in Step2
PipelineAnswers ==
    {a \in Step2Answers :
        /\ a.reprocess \in {"ok", "unused"}
        /\ a.dewarp \in {"corrected", "unused"}
        /\ a.llm.success =>
              /\ a.llm.judgment[1].readability_issues \in {<<"none">>, <<"major">>}
              /\ a.llm.judgment[1].has_something_out_of_document = <<FALSE>>}

InitPipeline ==
    /\ pdf_document \in {doc \in PdfDocuments : Len(doc.pages) <= MaxPipelinePages}
    /\ step1 = IdleStep1
    /\ pdf_result = <<>>
    /\ step2_result = <<>>
    /\ page_judgments = <<>> /\ tasks = <<>> /\ answers = <<>> /\ unreadable = {}
    /\ step3_result = <<>> /\ step4_result = <<>>
    /\ stage = "step1"
    /\ pipeline \in [step2_processor : BOOLEAN, step3_processor : BOOLEAN,
                     pipeline_result : {<<NewPipelineResult>>}]
    /\ step5_result = <<>> /\ IdleRetry
    /\ IdleMerge /\ IdleLR /\ IdleTile /\ IdleAngle /\ IdleDPI /\ IdleOCR /\ IdleLate

\* process_pdf from the return of _pdf_to_jpg to the await in Step2
PipelineStep1Done ==
    /\ stage = "step1" /\ pdf_result # <<>>
    /\ LET pipeline_result ==
               [pipeline.pipeline_result[1] EXCEPT !.steps.pdf_conversion = pdf_result]
       IN  IF PipelineAborts("pdf_conversion", pdf_result[1])
           THEN /\ pipeline' = [pipeline EXCEPT
                                   !.pipeline_result = <<PipelineError(pipeline_result)>>]
                /\ stage' = "done"
                /\ UNCHANGED step2_result
           ELSE /\ pipeline' = [pipeline EXCEPT !.pipeline_result = <<pipeline_result>>]
                /\ stage' = "step2"
                /\ step2_result' = IF pipeline.step2_processor THEN <<>> ELSE <<StepSkipped>>
    /\ UNCHANGED <<page_judgments, tasks, answers, unreadable, step3_result, step4_result,
                   pdf_document, step1, pdf_result, step5_result, vars_retry, vars_merge, vars_lr,
                   vars_tile, vars_angle, vars_dpi, vars_ocr, vars_late>>

\* process_pdf from the return of _process_step2 to the await in Step3
PipelineStep2Done ==
    /\ stage = "step2" /\ step2_result # <<>>
    /\ LET pipeline_result ==
               [pipeline.pipeline_result[1] EXCEPT !.steps.step2_processing = step2_result]
           page_results == step2_result[1].page_results
       IN  IF PipelineAborts("step2_processing", step2_result[1])
           THEN /\ pipeline' = [pipeline EXCEPT
                                   !.pipeline_result = <<PipelineError(pipeline_result)>>]
                /\ stage' = "done"
                /\ UNCHANGED <<page_judgments, tasks, answers, step3_result>>
           ELSE /\ pipeline' = [pipeline EXCEPT !.pipeline_result = <<pipeline_result>>]
                /\ stage' = "step3"
                /\ IF ~pipeline.step3_processor
                   THEN /\ step3_result' = <<StepSkipped>>
                        /\ UNCHANGED <<page_judgments, tasks, answers>>
                   ELSE IF page_results = <<>>
                   THEN /\ step3_result' = <<[success |-> TRUE, page_results |-> <<>>]>>
                        /\ UNCHANGED <<page_judgments, tasks, answers>>
                   ELSE /\ page_judgments' =
                               [i \in 1..Len(page_results) |-> Step3PageData(page_results[i])]
                        /\ tasks' = <<>>
                        /\ answers' = <<>>
                        /\ UNCHANGED step3_result
    /\ UNCHANGED <<unreadable, step4_result, vars_stage12, step5_result, vars_retry, vars_merge, vars_lr,
                   vars_tile, vars_angle, vars_dpi, vars_ocr, vars_late>>

\* process_pdf from the return of _process_step3 to its return
PipelineFinish ==
    /\ stage = "step3" /\ step3_result # <<>>
    /\ LET pipeline_result ==
               [pipeline.pipeline_result[1] EXCEPT !.steps.step3_processing = step3_result]
       IN  IF PipelineAborts("step3_processing", step3_result[1])
           THEN pipeline' = [pipeline EXCEPT
                                !.pipeline_result = <<PipelineError(pipeline_result)>>]
           ELSE pipeline' = [pipeline EXCEPT !.pipeline_result =
                    <<[pipeline_result EXCEPT
                          !.final_results = <<FinalResults(pdf_result[1], step2_result[1],
                                                           step3_result[1])>>,
                          !.success = TRUE]>>]
    /\ stage' = "done"
    /\ UNCHANGED <<vars_pages, step5_result, vars_retry, vars_merge, vars_lr, vars_tile, vars_angle,
                   vars_dpi, vars_ocr, vars_late>>

NextPipeline ==
    \/ stage = "step1" /\ NextStep1
    \/ PipelineStep1Done
    \/ stage = "step2" /\ Step2Start
    \/ stage = "step2" /\ \E t \in 1..Len(tasks) :
                             Step2PageJudged(t) /\ answers'[t][1] \in PipelineAnswers
    \/ stage = "step2" /\ Step2Finish
    \/ PipelineStep2Done
    \/ stage = "step3" /\ NextStep3
    \/ PipelineFinish

SpecPipeline == InitPipeline /\ [][NextPipeline]_vars

(***************************************************************************)
(* Step5: Step5Processor.  The tiles of a source image are kept as one     *)
(* entry per source image that was split.                                  *)
(***************************************************************************)
\* Step5Processor.split_single_page_images with process_page_splits:
\* split_and_save fails on an image it cannot read
SplitSinglePageImages(page_data) ==
    LET processed_images == page_data.processed_images
        split_results ==
            [i \in 1..Len(processed_images) |->
                [success |-> processed_images[i] \notin unreadable,
                 page_number |-> page_data.page_number,
                 source_mask_index |-> i - 1,
                 source_dewarped_image |-> processed_images[i]]]
    IN  IF processed_images = <<>>
        THEN [page_number |-> page_data.page_number, success |-> FALSE,
              split_results |-> <<>>, split_images |-> <<>>]
        ELSE [page_number |-> page_data.page_number, success |-> TRUE,
              split_results |-> split_results,
              split_images |-> SelectSeq(split_results, LAMBDA r : r.success)]

\* ImageProcessor.create_ocr_groups: the group keys, in insertion order
RECURSIVE CreateOcrGroups(_)
CreateOcrGroups(all_split_results) ==
    IF all_split_results = <<>> THEN <<>>
    ELSE LET split_images == Head(all_split_results).split_images
         IN  [i \in 1..Len(split_images) |->
                 [page |-> split_images[i].page_number,
                  mask |-> split_images[i].source_mask_index + 1]]
             \o CreateOcrGroups(Tail(all_split_results))

\* Step5Processor.process_pages: every page of the list is split, the
\* successful pages are grouped
Step5ProcessPages ==
    /\ step5_result = <<>>
    /\ LET split_results == [i \in 1..Len(page_judgments) |->
                                SplitSinglePageImages(page_judgments[i])]
           successful_results == SelectSeq(split_results, LAMBDA r : r.success)
       IN  step5_result' =
              <<[success |-> successful_results # <<>>,
                 split_results |-> successful_results,
                 failed_results |-> SelectSeq(split_results, LAMBDA r : ~r.success),
                 ocr_groups |-> CreateOcrGroups(successful_results)]>>
    /\ UNCHANGED <<vars_pages, stage, pipeline, vars_retry, vars_merge, vars_lr, vars_tile,
                   vars_angle, vars_dpi, vars_ocr, vars_late>>

(***************************************************************************)
(* The stages, each called with any list of pages, and with page tasks     *)
(* that may end in an exception                                            *)
(***************************************************************************)
InitStages ==
    /\ stage \in {"step2", "step3", "step4", "step5", "step6"}
    /\ pdf_result \in (IF stage = "step2" THEN {<<r>> : r \in Step2Inputs} ELSE {<<>>})
    /\ page_judgments \in (CASE stage \in {"step2", "step6"} -> {<<>>}
                             [] stage = "step4" ->
                                    {pages \in Step4PageLists :
                                        \A i \in 1..Len(pages) : ~pages[i].needs_dewarping}
                             [] OTHER -> PageLists)
    /\ unreadable \in (CASE stage = "step2" -> SUBSET {ImageFile(p) : p \in PageNumbers}
                         [] stage \in {"step3", "step6"} -> {{}}
                         [] OTHER -> SUBSET {Path(p, 1, "") : p \in PageNumbers})
    /\ pdf_document = [opens |-> FALSE, pages |-> <<>>]
    /\ step1 = IdleStep1
    /\ step2_result = <<>> /\ step3_result = <<>> /\ step4_result = <<>> /\ step5_result = <<>>
    /\ IdleRetry
    /\ tasks = <<>> /\ answers = <<>>
    /\ pipeline = IdlePipeline
    /\ IF stage = "step6"
       THEN /\ session_dirs = CreateSessionDirectories
            /\ step6 \in {[IdleStep6 EXCEPT !.max_concurrent_ocr = MaxConcurrentOcr,
                                             !.groups = groups] : groups \in Step6Groups}
            /\ group_tasks = <<>>
            /\ disk = [dirs |-> {}, files |-> {}, result |-> {}]
            /\ step6_result = <<>>
            /\ step7_result = <<>>
       ELSE IdleLate
    /\ IdleMerge /\ IdleLR /\ IdleTile /\ IdleAngle /\ IdleDPI /\ IdleOCR

NextStages ==
    \/ stage = "step2" /\ NextStep2
    \/ stage = "step3" /\ NextStep3
    \/ stage = "step3" /\ \E t \in 1..Len(tasks) : Step3PageRaised(t)
    \/ stage = "step4" /\ NextStep4
    \/ stage = "step4" /\ \E t \in 1..Len(tasks) : Step4PageRaised(t)
    \/ stage = "step5" /\ Step5ProcessPages
    \/ stage = "step6" /\ (Step6Start \/ Step6Finish)
    \/ stage = "step6" /\ \E g \in 1..Len(group_tasks) :
          Step6Acquire(g) \/ Step6Release(g) \/ \E engine \in Engines : Step6EngineDone(g, engine)

SpecStages == InitStages /\ [][NextStages]_vars

(***************************************************************************)
(* PageCountEvaluator.evaluate_page_count: the attempts of one judgment    *)
(***************************************************************************)
\* the guards evaluate_page_count returns on before its first API call
EvaluatorPreconditions == {"ok", "no_image_file", "no_api_key", "encode_failed"}

\* what one attempt gives: _call_gemini_api failed ("api_error"), the
\* response could not be parsed ("json_error", "parse_error"), or a judgment
AttemptOutcomes ==
    {[error |-> <<e>>, judgment |-> <<>>] : e \in {"api_error", "json_error", "parse_error"}}
    \cup {[error |-> <<>>, judgment |-> <<a.judgment>>] : a \in {r \in PageCountAnswers : r.success}}

\* mutant: one more attempt than max_retries
MoreAttempts_OneMore(attempt, max_retries) == attempt <= max_retries

\* "for attempt in range(self.max_retries)": whether another attempt
\* follows the attempt-th one
MoreAttempts(attempt, max_retries) == attempt < max_retries

InitEvaluator ==
    /\ evaluator \in {[IdleEvaluator EXCEPT !.max_retries = m, !.precondition = p] :
                         m \in 0..MaxRetries, p \in EvaluatorPreconditions}
    /\ ocr_engine = IdleOcrEngine
    /\ stage = "idle" /\ pipeline = IdlePipeline /\ step5_result = <<>>
    /\ IdleMerge /\ IdleLR /\ IdleTile /\ IdleAngle /\ IdlePages /\ IdleDPI /\ IdleOCR /\ IdleLate

\* evaluate_page_count up to its first await: the guards, then the first
\* API call unless max_retries leaves the loop without an iteration
EvaluatePageCountStart ==
    /\ evaluator.pc = "idle"
    /\ evaluator' =
          IF evaluator.precondition # "ok"
          THEN [evaluator EXCEPT !.pc = "returned",
                   !.result = <<[success |-> FALSE, judgment |-> <<>>,
                                 error |-> <<evaluator.precondition>>, attempt |-> 0]>>]
          ELSE IF MoreAttempts(0, evaluator.max_retries)
          THEN [evaluator EXCEPT !.pc = "calling", !.api_calls = 1]
          ELSE [evaluator EXCEPT !.pc = "returned",
                   !.result = <<[success |-> FALSE, judgment |-> <<>>,
                                 error |-> evaluator.last_error, attempt |-> 0]>>]
    /\ UNCHANGED <<ocr_engine, stage, pipeline, step5_result, vars_merge, vars_lr, vars_tile,
                   vars_angle, vars_pages, vars_dpi, vars_ocr, vars_late>>

\* the API call of the current attempt returns: a parsed judgment is
\* returned as success, a failure is kept as last_error and followed by the
\* next attempt, or by the failure return after the last one
EvaluatePageCountAttemptDone ==
    /\ evaluator.pc = "calling"
    /\ \E outcome \in AttemptOutcomes :
          LET attempted == [evaluator EXCEPT !.attempts = Append(@, outcome)]
          IN  evaluator' =
                 IF outcome.error = <<>>
                 THEN [attempted EXCEPT !.pc = "returned",
                          !.result = <<[success |-> TRUE, judgment |-> outcome.judgment,
                                        error |-> <<>>, attempt |-> evaluator.api_calls]>>]
                 ELSE IF MoreAttempts(evaluator.api_calls, evaluator.max_retries)
                 THEN [attempted EXCEPT !.last_error = outcome.error, !.api_calls = @ + 1]
                 ELSE [attempted EXCEPT !.pc = "returned", !.last_error = outcome.error,
                          !.result = <<[success |-> FALSE, judgment |-> <<>>,
                                        error |-> outcome.error, attempt |-> 0]>>]
    /\ UNCHANGED <<ocr_engine, stage, pipeline, step5_result, vars_merge, vars_lr, vars_tile,
                   vars_angle, vars_pages, vars_dpi, vars_ocr, vars_late>>

NextEvaluator == EvaluatePageCountStart \/ EvaluatePageCountAttemptDone

\* every API call returns: the await of _call_gemini_api is resumed
SpecEvaluator == InitEvaluator /\ [][NextEvaluator]_vars /\ WF_vars(NextEvaluator)

(***************************************************************************)
(* GeminiOCREngine.extract_text_from_images: the retries of one OCR call   *)
(***************************************************************************)
\* what the image checks at the entry of extract_text_from_images give
PrepareOutcomes == {"ok", "no_valid_images", "prepare_failed"}

\* what _call_gemini_api and _parse_ocr_response give for one call
ApiOutcomes ==
    {[api_success |-> FALSE, error |-> <<e>>, text |-> <<>>] : e \in {"api_error", "timeout"}}
    \cup {[api_success |-> TRUE, error |-> <<"parse_error">>, text |-> <<>>],
          [api_success |-> TRUE, error |-> <<>>, text |-> <<"text">>]}

\* "if retry_count < self.max_retries"
ShouldRetry(retry_count, max_retries) == retry_count < max_retries

\* mutant: a fixed wait of two seconds
BackoffSeconds_Fixed(retry_count) == 2

\* "await asyncio.sleep(2 ** retry_count)"
BackoffSeconds(retry_count) == 2 ^ retry_count

\* extract_text_from_images from its entry to the await of the API call:
\* the images are checked and prepared, then the call is made
ExtractEnter(engine, prepared) ==
    IF prepared # "ok"
    THEN [engine EXCEPT !.pc = "returned",
             !.result = <<[success |-> FALSE, error |-> <<prepared>>, text |-> <<>>]>>]
    ELSE [engine EXCEPT !.pc = "calling", !.api_calls = @ + 1]

InitOcrEngine ==
    /\ ocr_engine \in {[IdleOcrEngine EXCEPT !.max_retries = m, !.image_paths = n] :
                          m \in 0..MaxRetries, n \in 0..MaxImages}
    /\ evaluator = IdleEvaluator
    /\ stage = "idle" /\ pipeline = IdlePipeline /\ step5_result = <<>>
    /\ IdleMerge /\ IdleLR /\ IdleTile /\ IdleAngle /\ IdlePages /\ IdleDPI /\ IdleOCR /\ IdleLate

\* the call with retry_count = 0
ExtractTextStart ==
    /\ ocr_engine.pc = "idle"
    /\ \E prepared \in PrepareOutcomes :
          ocr_engine' =
             IF ocr_engine.image_paths = 0
             THEN [ocr_engine EXCEPT !.pc = "returned",
                      !.result = <<[success |-> FALSE, error |-> <<"no_image_paths">>,
                                    text |-> <<>>]>>]
             ELSE ExtractEnter(ocr_engine, prepared)
    /\ UNCHANGED <<evaluator, stage, pipeline, step5_result, vars_merge, vars_lr, vars_tile,
                   vars_angle, vars_pages, vars_dpi, vars_ocr, vars_late>>

\* the API call returns: a failed call is retried after the backoff sleep
\* while retries are left and returned otherwise; a successful call is
\* parsed and returned
ExtractTextApiDone ==
    /\ ocr_engine.pc = "calling"
    /\ \E outcome \in ApiOutcomes :
          LET called == [ocr_engine EXCEPT !.api_results = Append(@, outcome)]
              result == [success |-> outcome.error = <<>>, error |-> outcome.error,
                         text |-> outcome.text]
          IN  ocr_engine' =
                 IF ~outcome.api_success /\ ShouldRetry(ocr_engine.retry_count, ocr_engine.max_retries)
                 THEN [called EXCEPT !.pc = "sleeping",
                                     !.sleeps = Append(@, BackoffSeconds(ocr_engine.retry_count))]
                 ELSE [called EXCEPT !.pc = "returned", !.result = <<result>>]
    /\ UNCHANGED <<evaluator, stage, pipeline, step5_result, vars_merge, vars_lr, vars_tile,
                   vars_angle, vars_pages, vars_dpi, vars_ocr, vars_late>>

\* the sleep is over: the recursive call with retry_count + 1
ExtractTextRetry ==
    /\ ocr_engine.pc = "sleeping"
    /\ \E prepared \in PrepareOutcomes :
          ocr_engine' = ExtractEnter([ocr_engine EXCEPT !.retry_count = @ + 1], prepared)
    /\ UNCHANGED <<evaluator, stage, pipeline, step5_result, vars_merge, vars_lr, vars_tile,
                   vars_angle, vars_pages, vars_dpi, vars_ocr, vars_late>>

NextOcrEngine == ExtractTextStart \/ ExtractTextApiDone \/ ExtractTextRetry

\* every API call returns and every sleep ends
SpecOcrEngine == InitOcrEngine /\ [][NextOcrEngine]_vars /\ WF_vars(NextOcrEngine)

(***************************************************************************)
(* Claims on the merge                                                     *)
(***************************************************************************)
\* S: the sum of the integer page_count values of the successful results
RECURSIVE SuppliedSum(_)
SuppliedSum(results) ==
    IF results = <<>> THEN 0
    ELSE LET r == Head(results)
         IN  (IF r.success /\ r.judgment.page_count.t = "int"
              THEN r.judgment.page_count.v ELSE 0) + SuppliedSum(Tail(results))

\* the recognised levels the successful results supply (case-insensitive)
SuppliedLevels(results) ==
    {Lower(results[i].judgment.readability_issues) :
        i \in {k \in 1..Len(results) : results[k].success}} \cap OrderKeys

\* C1: the merge of the per-image results of a page returns
\* page_count = clamp(S, 1, 3), S the sum of the integer page_count values of
\* the successful results; the merged page_count is always 1, 2 or 3.
C1_MergedPageCountClampsSum ==
    merged_result # <<>> =>
        LET m == merged_result[1]
            S == SuppliedSum(individual_results)
        IN  /\ m.success
            /\ m.merged_judgment # <<>>
            /\ m.merged_judgment[1].page_count =
                   (IF S <= 0 THEN 1 ELSE IF S > 3 THEN 3 ELSE S)
            /\ m.merged_judgment[1].page_count \in {1, 2, 3}

\* a merge of two results whose sum exceeds 3 and is clamped to 3
C1_Witness ==
    /\ merged_result # <<>>
    /\ Len(individual_results) = 2
    /\ SuppliedSum(individual_results) > 3
    /\ merged_result[1].merged_judgment[1].page_count = 3

OverlapWidth == (image_width * overlap_ratio) \div 100

\* C7 as stated: for every width W and overlap ratio r the left band
\* [0, left_end) and the right band [right_start, W) share exactly
\* floor(W * r) columns: left_end - right_start = floor(W * r).
C7_OverlapIsConfiguredWidth ==
    lr_split # <<>> =>
        lr_split[1].left_end - lr_split[1].right_start = OverlapWidth

\* C7 amended: for every width W and overlap ratio 0 <= r <= 1 the two bands
\* lie inside the image and share left_end - right_start =
\* 2 * floor(floor(W * r) / 2) columns: floor(W * r) when that is even, one
\* column less when it is odd.
C7_OverlapIsEvenPartOfWidth ==
    lr_split # <<>> =>
        LET left_end == lr_split[1].left_end
            right_start == lr_split[1].right_start
        IN  /\ 0 <= right_start /\ right_start <= left_end /\ left_end <= image_width
            /\ left_end - right_start = 2 * (OverlapWidth \div 2)
            /\ left_end - right_start =
                   (IF OverlapWidth % 2 = 0 THEN OverlapWidth ELSE OverlapWidth - 1)

\* a split whose configured overlap width is odd
C7_Witness ==
    /\ lr_split # <<>>
    /\ OverlapWidth % 2 = 1
    /\ lr_split[1].left_end - lr_split[1].right_start = OverlapWidth - 1

(***************************************************************************)
(* Claims on the tiling bands                                              *)
(***************************************************************************)
\* C8: for every height H >= 1 the bands are listed in ascending order,
\* start at 0, end at H, stay inside [0, H] and cover every row of [0, H).
C8_BandsCoverImage ==
    regions # <<>> =>
        LET b == regions[1]
        IN  /\ Len(b) >= 1
            /\ b[1][1] = 0
            /\ b[Len(b)][2] = image_height
            /\ \A k \in 1..Len(b) : 0 <= b[k][1] /\ b[k][1] <= b[k][2] /\ b[k][2] <= image_height
            /\ \A k \in 1..(Len(b) - 1) : b[k][1] <= b[k + 1][1] /\ b[k][2] <= b[k + 1][2]
            /\ \A y \in 0..(image_height - 1) : \E k \in 1..Len(b) : b[k][1] <= y /\ y < b[k][2]

\* several bands, with a remainder of rows that only the last band takes
C8_Witness ==
    /\ regions # <<>>
    /\ Len(regions[1]) >= 3
    /\ image_height % Len(regions[1]) # 0
    /\ regions[1][Len(regions[1])][2] = image_height

\* C9 as stated: adjacent bands i and i+1 overlap by exactly
\* overlap_px = floor(base_height * overlap_ratio) rows.
C9_AdjacentOverlapIsOverlapPx ==
    regions # <<>> =>
        \A k \in 1..(Len(regions[1]) - 1) :
            regions[1][k][2] - regions[1][k + 1][1] = OverlapPixels(splitter, image_height)

\* C9 amended: for overlap ratios 0 <= r <= 1, adjacent bands i and i+1
\* overlap by exactly 2 * overlap_px rows (each band is extended by
\* overlap_px on both sides).
C9_AdjacentOverlapIsTwiceOverlapPx ==
    regions # <<>> =>
        \A k \in 1..(Len(regions[1]) - 1) :
            regions[1][k][2] - regions[1][k + 1][1] = 2 * OverlapPixels(splitter, image_height)

\* the default configuration on an image high enough for five bands
C9_Witness ==
    /\ regions # <<>>
    /\ splitter = [num_splits |-> 5, overlap_ratio |-> 10, min_height_per_split |-> 100]
    /\ Len(regions[1]) = 5
    /\ OverlapPixels(splitter, image_height) > 0
    /\ regions[1][1][2] - regions[1][2][1] = 2 * OverlapPixels(splitter, image_height)

(***************************************************************************)
(* Claims on the angle normalisation                                       *)
(***************************************************************************)
\* C10 as stated: an integer angle a gives 0 for -45 < a <= 45, 90 for
\* 45 < a <= 135, -90 for -135 <= a <= -45 and 180 otherwise.
C10_BucketsHalfOpen ==
    (angle # <<>> /\ rotation.t = "int") =>
        LET a == rotation.v
        IN  angle[1] = (IF -45 < a /\ a <= 45 THEN 0
                        ELSE IF 45 < a /\ a <= 135 THEN 90
                        ELSE IF -135 <= a /\ a <= -45 THEN -90
                        ELSE 180)

\* C10 amended: an integer angle a gives 0 for -45 <= a <= 45, 90 for
\* 45 < a <= 135, -90 for -135 <= a < -45 and 180 otherwise; the result is
\* always one of 0, 90, -90, 180.
C10_BucketsClosedAroundZero ==
    angle # <<>> =>
        /\ angle[1] \in {0, 90, -90, 180}
        /\ rotation.t = "int" =>
              LET a == rotation.v
              IN  /\ (-45 <= a /\ a <= 45) => angle[1] = 0
                  /\ (45 < a /\ a <= 135) => angle[1] = 90
                  /\ (-135 <= a /\ a < -45) => angle[1] = -90
                  /\ (a < -135 \/ a > 135) => angle[1] = 180

\* the boundary angle -45 is normalised to 0
C10_Witness ==
    /\ angle # <<>>
    /\ rotation = PyInt(-45)
    /\ angle[1] = 0

(***************************************************************************)
(* Claims on Step3                                                         *)
(***************************************************************************)
\* C3: the page_results list Step3 returns is ordered by ascending
\* page_number, whatever the order in which the page tasks were launched
\* and completed.
C3_PageResultsAscending ==
    step3_result # <<>> =>
        LET page_results == step3_result[1].page_results
        IN  \A i, j \in 1..Len(page_results) :
                i < j => page_results[i].page_number < page_results[j].page_number

\* C4: a processed page with n images keeps n entries in the original
\* order: entry i is the rotated output of image i when its judgment and its
\* rotation succeeded with a non-zero angle, and the unchanged path of image i
\* otherwise; every image of the page was handled and the page committed,
\* whatever failed on its other images.
C4_ProcessedImagesRebuiltInOrder ==
    \A t \in 1..Len(tasks) :
        (tasks[t].pc = "done" /\ tasks[t].proc_images # <<>>) =>
            LET page_data == page_judgments[tasks[t].page]
                imgs == tasks[t].proc_images
            IN  /\ tasks[t].result.success
                /\ Len(answers[t]) = Len(imgs)
                /\ page_data.step3_result # <<>>
                /\ Len(page_data.processed_images) = Len(imgs)
                /\ \A i \in 1..Len(imgs) :
                      page_data.processed_images[i] =
                          (IF answers[t][i] = "rotated"
                           THEN [imgs[i] EXCEPT !.sfx = "_rot"] ELSE imgs[i])
                /\ page_data.processed_image = <<page_data.processed_images[1]>>

\* the judgment of the first image failed and the second image was rotated
C4_Witness ==
    \E t \in 1..Len(tasks) :
        /\ tasks[t].pc = "done"
        /\ answers[t] = <<"detect_failed", "rotated">>
        /\ page_judgments[tasks[t].page].processed_images =
              <<tasks[t].proc_images[1], [tasks[t].proc_images[2] EXCEPT !.sfx = "_rot"]>>

(***************************************************************************)
(* Claims on Step4                                                         *)
(***************************************************************************)
\* the successful judgments among the answers a page task received
Successful(results) == SelectSeq(results, LAMBDA r : r.success)

\* C5: when the judgment of one image of a page fails, the judgments of the
\* page's other images are still merged and committed: the merge reports
\* success, page_count and the merged result are set from the successful
\* judgments only, and the page is not marked skip_processing.
C5_FailedJudgmentIsIsolated ==
    \A t \in 1..Len(tasks) :
        (/\ tasks[t].pc = "done"
         /\ \E i \in 1..Len(answers[t]) : ~answers[t][i].success
         /\ \E i \in 1..Len(answers[t]) : answers[t][i].success) =>
            LET page_data == page_judgments[tasks[t].page]
                sum == SuppliedSum(Successful(answers[t]))
                expected == IF sum > 3 THEN 3 ELSE IF sum < 1 THEN 1 ELSE sum
            IN  /\ Len(answers[t]) = Len(tasks[t].proc_images)
                /\ tasks[t].result.success
                /\ tasks[t].result.merged_judgment # <<>>
                /\ tasks[t].result.merged_judgment[1].page_count = expected
                /\ page_data.page_count = <<expected>>
                /\ page_data.step4_page_count_result = <<tasks[t].result>>
                /\ ~page_data.skip_processing

\* the first image of a page was not judged, the second was judged to hold
\* two pages, and the page carries page_count 2
C5_Witness ==
    \E t \in 1..Len(tasks) :
        /\ tasks[t].pc = "done"
        /\ Len(answers[t]) = 2
        /\ ~answers[t][1].success
        /\ answers[t][2].success
        /\ answers[t][2].judgment.page_count = PyInt(2)
        /\ page_judgments[tasks[t].page].page_count = <<2>>
        /\ tasks[t].result.success

\* C6: the forced split changes a page if and only if its page_count is
\* exactly 2, it is not skipped and it has exactly one processed image; then
\* processed_images becomes [left, right] and processed_image the left half.
\* Every other page, and a page whose split fails, keeps its page_data, and
\* no other step touches the image paths of a page.
C6_ForcedSplitOnlyForTwoPageSingleImage ==
    [][\A i \in 1..Len(page_judgments) :
          LET p == page_judgments[i]
              q == page_judgments'[i]
              eligible == /\ p.page_count = <<2>>
                          /\ ~p.skip_processing
                          /\ Len(p.processed_images) = 1
          IN  IF step4_result = <<>> /\ step4_result' # <<>>
              THEN IF eligible /\ p.processed_images[1] \notin unreadable
                   THEN /\ q = [p EXCEPT
                                  !.processed_images =
                                      <<LeftPath(p.page_number), RightPath(p.page_number)>>,
                                  !.processed_image = <<LeftPath(p.page_number)>>]
                        /\ q # p
                        /\ step4_result'[1].split_result.results[i].split
                   ELSE /\ q = p
                        /\ ~step4_result'[1].split_result.results[i].split
                        /\ step4_result'[1].split_result.results[i].success = ~eligible
              ELSE /\ q.processed_images = p.processed_images
                   /\ q.processed_image = p.processed_image]_vars

\* a page judged to hold two pages was split into its halves while a page
\* of the same run kept its image
C6_Witness ==
    /\ step4_result # <<>>
    /\ \E i, j \in 1..Len(page_judgments) :
          /\ page_judgments[i].page_count = <<2>>
          /\ page_judgments[i].processed_images =
                <<LeftPath(page_judgments[i].page_number),
                  RightPath(page_judgments[i].page_number)>>
          /\ page_judgments[i].processed_image = <<LeftPath(page_judgments[i].page_number)>>
          /\ page_judgments[j].page_count = <<3>>
          /\ Len(page_judgments[j].processed_images) = 1
          /\ ~step4_result[1].split_result.results[j].split

(***************************************************************************)
(* Claims on the DPI calculation                                           *)
(***************************************************************************)
\* neither clamp bound is hit for the page at the given scale
ClampNotHit(scale) ==
    LET x == UnclampedDpi(dpi_calculator, scale * page_size.width, scale * page_size.height)
    IN  /\ dpi_calculator.min_dpi * x[2] <= x[1]
        /\ x[1] <= dpi_calculator.max_dpi * x[2]

\* C18: for a page of positive width and height the calculated DPI is the
\* integer part of min(target_w*72/w, target_h*72/h) clamped to
\* [min_dpi, max_dpi], and lies in [min_dpi, max_dpi].
C18_DpiIsClampedIntegerPart ==
    (optimal_dpi # <<>> /\ page_size.width > 0 /\ page_size.height > 0) =>
        \A scale \in DOMAIN optimal_dpi :
            optimal_dpi[scale] # <<>> =>
                LET w == scale * page_size.width
                    h == scale * page_size.height
                    tw == dpi_calculator.target_size[1] * 72
                    th == dpi_calculator.target_size[2] * 72
                    lo == dpi_calculator.min_dpi
                    hi == dpi_calculator.max_dpi
                    d == optimal_dpi[scale][1]
                IN  /\ lo <= d /\ d <= hi
                    /\ IF tw > hi * w /\ th > hi * h THEN d = hi
                       ELSE IF tw < lo * w \/ th < lo * h THEN d = lo
                       ELSE \* d <= min(tw/w, th/h) < d + 1
                            /\ d * w <= tw /\ d * h <= th
                            /\ (d + 1) * w > tw \/ (d + 1) * h > th

\* an A4-like page whose DPI lies strictly between the clamp bounds
C18_Witness ==
    /\ optimal_dpi # <<>>
    /\ dpi_calculator.max_dpi = 600
    /\ page_size = [width |-> 600, height |-> 840]
    /\ optimal_dpi[1] = <<219>>

\* C19 as stated: when neither clamp bound is hit for (w, h) nor for
\* (2w, 2h), the DPI calculated for (w, h) equals the one for (2w, 2h).
C19_DpiUnchangedByDoubling ==
    (/\ optimal_dpi # <<>>
     /\ page_size.width > 0 /\ page_size.height > 0
     /\ optimal_dpi[1] # <<>> /\ optimal_dpi[2] # <<>>
     /\ ClampNotHit(1) /\ ClampNotHit(2)) =>
        optimal_dpi[1] = optimal_dpi[2]

\* C19 amended: when neither clamp bound is hit for (w, h) nor for (2w, 2h),
\* the DPI calculated for (2w, 2h) is half the DPI calculated for (w, h),
\* rounded down.
C19_DpiHalvedByDoubling ==
    (/\ optimal_dpi # <<>>
     /\ page_size.width > 0 /\ page_size.height > 0
     /\ optimal_dpi[1] # <<>> /\ optimal_dpi[2] # <<>>
     /\ ClampNotHit(1) /\ ClampNotHit(2)) =>
        optimal_dpi[2][1] * 2 \in {optimal_dpi[1][1], optimal_dpi[1][1] - 1}

\* a page measured at both scales, unclamped: 147 DPI and 73 DPI
C19_Witness ==
    /\ optimal_dpi # <<>>
    /\ page_size = [width |-> 1000, height |-> 1000]
    /\ dpi_calculator.max_dpi = 600
    /\ ClampNotHit(1) /\ ClampNotHit(2)
    /\ optimal_dpi[1] = <<147>>
    /\ optimal_dpi[2] = <<73>>

(***************************************************************************)
(* Claims on Step1                                                         *)
(***************************************************************************)
\* C17: a page that fails to render does not stop the rendering of the
\* remaining pages: once process_pdf has returned for a PDF that opens, every
\* page of the PDF has exactly one per-page result, in page order, the pages
\* that can be rendered are rendered, and the overall result is a success if
\* and only if at least one page rendered.
C17_EveryPageHasOneResult ==
    (pdf_result # <<>> /\ pdf_document.opens) =>
        LET pages == pdf_result[1].pages
        IN  /\ Len(pages) = Len(pdf_document.pages)
            /\ \A i \in 1..Len(pages) :
                  /\ pages[i].page_number = i
                  /\ pages[i].success = (pdf_document.pages[i] = "ok")
            /\ pdf_result[1].success = (\E i \in 1..Len(pages) : pages[i].success)

(***************************************************************************)
(* Claims on Step2                                                         *)
(***************************************************************************)
\* the operations a page task has called, in order
Ops(t) == [i \in 1..Len(tasks[t].calls) |-> tasks[t].calls[i].op]

Called(t, op) == \E i \in 1..Len(tasks[t].calls) : tasks[t].calls[i].op = op

\* the page task is done and its judgment was answered, successfully or not
Judged(t, ok) ==
    /\ tasks[t].pc = "done"
    /\ ~answers[t][1].raised
    /\ answers[t][1].llm.success = ok

\* C11: when the distortion judgment of a page fails, the page is not
\* dropped and the run is not aborted: the page proceeds with the defaults
\* needs_dewarping = false and readability 'none', neither re-scan nor dewarp
\* is executed for it, its processed image stays the original Step1 image,
\* and it is handed on marked as degraded.
C11_FailedJudgmentProceedsWithDefaults ==
    (step2_result # <<>> /\ tasks # <<>>) =>
        \A t \in 1..Len(tasks) :
            Judged(t, FALSE) =>
                LET r == tasks[t].result
                IN  /\ step2_result[1].success
                    /\ \E i \in 1..Len(step2_result[1].page_results) :
                          step2_result[1].page_results[i] = r
                    /\ r.needs_dewarping = <<FALSE>>
                    /\ r.readability_issues = <<"none">>
                    /\ Ops(t) = <<"judge">>
                    /\ r.processed_image = r.original_image
                    /\ r.processed_images = r.original_image
                    /\ ~r.success /\ r.error

\* C12: every page goes through Step2 in the order judgment, then re-scan
\* (if any), then dewarp (if any): the judgment precedes both, re-scan
\* precedes dewarp, no step runs twice, and the dewarp takes the re-scanned
\* image as its input when the re-scan succeeded, else the original.
C12_JudgeThenRescanThenDewarp ==
    \A t \in 1..Len(tasks) :
        LET calls == tasks[t].calls
            pn == tasks[t].result.page_number
        IN  /\ Ops(t) \in {<<"judge">>, <<"judge", "rescan">>, <<"judge", "dewarp">>,
                           <<"judge", "rescan", "dewarp">>}
            /\ tasks[t].pc = "awaiting" => Ops(t) = <<"judge">>
            /\ calls[1].image = ImageFile(pn)
            /\ \A i \in 1..Len(calls) :
                  calls[i].op = "dewarp" =>
                      calls[i].image =
                          (IF Called(t, "rescan") /\ answers[t][1].reprocess = "ok"
                           THEN Path(pn, 1, "_reprocessed_2x")
                           ELSE ImageFile(pn))

\* a page was judged, re-scanned and dewarped from the re-scanned image
C12_Witness ==
    \E t \in 1..Len(tasks) :
        /\ tasks[t].pc = "done"
        /\ Ops(t) = <<"judge", "rescan", "dewarp">>
        /\ tasks[t].calls[3].image = Path(tasks[t].result.page_number, 1, "_reprocessed_2x")

\* C13: re-scan runs for a page exactly when its judged readability level
\* is 'major' (in any letter case); on success processed_images is the single
\* re-rendered image (as far as the dewarp does not replace it by its
\* corrected version) and reprocessed_at_scale is true; on failure the prior
\* image is kept, the flag is false and the page still succeeds.
C13_RescanExactlyForMajor ==
    \A t \in 1..Len(tasks) :
        Judged(t, TRUE) =>
            LET r == tasks[t].result
                a == answers[t][1]
                pn == r.page_number
                rescanned == Path(pn, 1, "_reprocessed_2x")
            IN  /\ Called(t, "rescan") = (r.readability_issues[1] \in {"major", "Major"})
                /\ r.success
                /\ IF Called(t, "rescan") /\ a.reprocess = "ok"
                   THEN /\ r.reprocessed_at_scale = <<TRUE>>
                        /\ r.processed_images =
                              (IF a.dewarp = "corrected"
                               THEN <<Path(pn, 1, "_reprocessed_2x_dewarped")>>
                               ELSE <<rescanned>>)
                   ELSE /\ r.reprocessed_at_scale = <<FALSE>>
                        /\ r.processed_images =
                              (IF a.dewarp = "corrected"
                               THEN <<Path(pn, 1, "_dewarped")>>
                               ELSE r.original_image)

\* a page judged 'major' was re-scanned and carries the re-rendered image
C13_Witness ==
    \E t \in 1..Len(tasks) :
        /\ Judged(t, TRUE)
        /\ tasks[t].result.readability_issues = <<"major">>
        /\ answers[t][1].reprocess = "ok"
        /\ tasks[t].result.reprocessed_at_scale = <<TRUE>>
        /\ tasks[t].result.processed_images =
              <<Path(tasks[t].result.page_number, 1, "_reprocessed_2x")>>

\* C14: when dewarping is attempted for a page, (a) corners found:
\* processed_images is replaced by the corrected output images; (b) corners
\* not found: processed_images is unchanged and the result is marked
\* skipped; (c) processing error: processed_images is unchanged and the error
\* is recorded; in no case does the page's success flag become false.
C14_DewarpOutcomesKeepPageSuccessful ==
    \A t \in 1..Len(tasks) :
        (tasks[t].pc = "done" /\ Called(t, "dewarp")) =>
            LET r == tasks[t].result
                a == answers[t][1]
                before == IF a.reprocess = "ok"
                          THEN Path(r.page_number, 1, "_reprocessed_2x")
                          ELSE r.original_image[1]
                corrected == [before EXCEPT
                                !.sfx = IF a.reprocess = "ok"
                                        THEN "_reprocessed_2x_dewarped" ELSE "_dewarped"]
            IN  /\ r.success
                /\ r.dewarping_result # <<>>
                /\ a.dewarp = "corrected" =>
                      /\ r.processed_images = <<corrected>>
                      /\ r.processed_images = r.dewarping_result[1].output_paths
                      /\ r.processed_image = <<corrected>>
                      /\ ~r.dewarping_result[1].skipped
                /\ a.dewarp = "skipped" =>
                      /\ r.processed_images = <<before>>
                      /\ r.processed_image = <<before>>
                      /\ r.dewarping_result[1].skipped
                /\ a.dewarp = "error" =>
                      /\ r.processed_images = <<before>>
                      /\ r.processed_image = <<before>>
                      /\ r.dewarping_result[1].error
                      /\ ~r.dewarping_result[1].success

\* the dewarping of a page found no corners and left its image in place
C14_Witness ==
    \E t \in 1..Len(tasks) :
        /\ tasks[t].pc = "done"
        /\ Ops(t) = <<"judge", "dewarp">>
        /\ answers[t][1].dewarp = "skipped"
        /\ tasks[t].result.dewarping_result[1].skipped
        /\ tasks[t].result.processed_images = tasks[t].result.original_image
        /\ tasks[t].result.success

\* C15: the page's needs_dewarping is the boolean OR of the judgment fields
\* needs_dewarping and has_something_out_of_document: a page judged
\* needs_dewarping = false and has_something_out_of_document = true is
\* dewarped.
C15_NeedsDewarpingIsOrOfFields ==
    \A t \in 1..Len(tasks) :
        Judged(t, TRUE) =>
            LET llm == answers[t][1].llm
                either == \/ JudgmentGet(llm, "needs_dewarping", FALSE)
                          \/ JudgmentGet(llm, "has_something_out_of_document", FALSE)
            IN  /\ tasks[t].result.needs_dewarping = <<either>>
                /\ Called(t, "dewarp") = either

(***************************************************************************)
(* Claims on the dewarping of pages judged to hold three pages             *)
(***************************************************************************)
\* C16: a page whose Step4 page_count turns out to be >= 3 is dewarped
\* regardless of the Step2 judgment: once Step4 has returned, every processed
\* page with page_count >= 3 has had dewarping applied, also when Step2
\* judged needs_dewarping = false.
C16_ThreePagesForceDewarping ==
    step4_result # <<>> =>
        \A i \in 1..Len(page_judgments) :
            LET page_data == page_judgments[i]
            IN  (/\ ~page_data.skip_processing
                 /\ page_data.page_count # <<>>
                 /\ page_data.page_count[1] >= 3) =>
                    page_data.dewarping_applied

(***************************************************************************)
(* Claims on the image lists of the OCR engines                            *)
(***************************************************************************)
\* the list is the whole image of the group first, when the group has one,
\* followed by every tile of the group once, in ascending tile index
WholeThenTiles(paths) ==
    LET whole == {i \in 1..Len(ocr_group) : ocr_group[i].image_type = "original"}
        tiles == {i \in 1..Len(ocr_group) : ocr_group[i].image_type = "split"}
        first == IF whole = {} THEN 0 ELSE 1
    IN  /\ Len(paths) = first + Cardinality(tiles)
        /\ whole # {} => \E i \in whole : paths[1] = ocr_group[i].image_path
        /\ \A i \in tiles : \E k \in (first + 1)..Len(paths) : paths[k] = ocr_group[i].image_path
        /\ \A k, l \in (first + 1)..Len(paths) :
              k < l => \E i, j \in tiles :
                          /\ paths[k] = ocr_group[i].image_path
                          /\ paths[l] = ocr_group[j].image_path
                          /\ ocr_group[i].split_index < ocr_group[j].split_index

\* C20: for every OCR group both engines work on the same ordered image
\* list: the whole image first when present, then the tiles in ascending
\* tile index, whatever the order of the images in the group record. The
\* Gemini engine sends the existing files of that list in that order, the
\* Document AI engine processes every entry of it in that order.
C20_EnginesGetSameOrderedImages ==
    /\ gemini_paths # <<>> =>
          /\ WholeThenTiles(gemini_paths[1].image_paths)
          /\ gemini_paths[1].valid_image_paths =
                SelectSeq(gemini_paths[1].image_paths, LAMBDA path : path \notin ocr_missing)
    /\ docai_paths # <<>> =>
          /\ WholeThenTiles(docai_paths[1].image_paths)
          /\ ImagePathsOf(docai_paths[1].individual_results) = docai_paths[1].image_paths
    /\ (gemini_paths # <<>> /\ docai_paths # <<>>) =>
          gemini_paths[1].image_paths = docai_paths[1].image_paths

\* a group recorded as tile 2, whole image, tile 1 reached both engines as
\* whole image, tile 1, tile 2
C20_Witness ==
    /\ ocr_group = <<SplitImage(2), OriginalImage, SplitImage(1)>>
    /\ gemini_paths # <<>> /\ docai_paths # <<>>
    /\ gemini_paths[1].image_paths =
          <<OriginalImage.image_path, SplitImage(1).image_path, SplitImage(2).image_path>>
    /\ docai_paths[1].image_paths = gemini_paths[1].image_paths

(***************************************************************************)
(* Claims on Step6 and Step7                                               *)
(***************************************************************************)
\* the groups whose task is inside the "async with semaphore" block
RunningGroups == {g \in 1..Len(group_tasks) : group_tasks[g].pc = "running"}

\* C21: at every moment of Step6 the number of OCR groups whose engine
\* calls are in progress is at most max_concurrent_ocr, for any number of
\* groups and any completion order.
C21_RunningGroupsBounded ==
    /\ Cardinality(RunningGroups) <= step6.max_concurrent_ocr
    /\ step6.pc = "gather" => step6.semaphore = step6.max_concurrent_ocr - Cardinality(RunningGroups)

\* max_concurrent_ocr groups are in progress, one of them has finished an
\* engine call, and a further group waits for the semaphore
C21_Witness ==
    /\ step6.pc = "gather"
    /\ Cardinality(RunningGroups) = step6.max_concurrent_ocr
    /\ step6.max_concurrent_ocr >= 2
    /\ \E g \in RunningGroups : group_tasks[g].gemini # <<>>
    /\ \E g \in 1..Len(group_tasks) : group_tasks[g].pc = "waiting"

\* the group keys of a list of per-group results
KeysOf(results) == {results[i].group_key : i \in 1..Len(results)}

\* C22: the two engines' outcomes for a group are recorded independently:
\* whatever the other engine did for the group, a successful result of an
\* engine is in that engine's successful list and a failed one in its
\* failed list, and every group has its result recorded for both engines.
C22_EnginesRecordedIndependently ==
    (step6_result # <<>> /\ step6.groups # <<>>) =>
        \A g \in 1..Len(group_tasks), e \in Engines :
            LET result == group_tasks[g][e][1]
                listed(results) == \E i \in 1..Len(results) : results[i] = result
            IN  /\ result.success <=> listed(step6_result[1].ocr_results[e])
                /\ ~result.success <=> listed(step6_result[1].failed_results[e])
                /\ KeysOf(step6_result[1].ocr_results[e]) \cup KeysOf(step6_result[1].failed_results[e])
                      = {step6.groups[h] : h \in 1..Len(step6.groups)}

\* Gemini failed for the first group and Document AI succeeded for it;
\* the group is in Gemini's failed list and in Document AI's successful
\* list, and the second group is recorded as successful for Gemini
C22_Witness ==
    /\ step6_result # <<>> /\ Len(step6.groups) >= 2
    /\ ~group_tasks[1].gemini[1].success /\ group_tasks[1].document_ai[1].success
    /\ group_tasks[2].gemini[1].success
    /\ step6.groups[1] \in KeysOf(step6_result[1].failed_results["gemini"])
    /\ step6.groups[1] \in KeysOf(step6_result[1].ocr_results["document_ai"])
    /\ step6.groups[2] \in KeysOf(step6_result[1].ocr_results["gemini"])

\* the engine produced a non-empty text for some group in Step6
ProducedText(e) ==
    \E g \in 1..Len(group_tasks) : group_tasks[g][e] # <<>> /\ group_tasks[g][e][1].text # ""

C24_TextsInDocumentOrder ==
    (step7_result # <<>> /\ ~step7_result[1].error) =>
        \A e \in Engines :
            LET texts == step7_result[1].integrated_text[e]
            IN  \A i, j \in 1..Len(texts) :
                    i < j => \/ texts[i].page < texts[j].page
                             \/ texts[i].page = texts[j].page /\ texts[i].mask < texts[j].mask

\* C25 (as stated): every successful Step7 run writes exactly two
\* integrated text files, one per engine, also when an engine's integrated
\* text is empty.  Violated: an empty integrated text is not written.
C25_TwoIntegratedTextFiles ==
    (step7_result # <<>> /\ ~step7_result[1].error) =>
        disk.result \ {"integration_metadata"} = {"gemini_integrated", "document_ai_integrated"}

\* C29 (as stated): once the session-directories map has been created, no
\* stage adds, removes or changes any of its entries.  Violated: Step6
\* enters "ocr_results" and "document_ai_results" into the map.
C29_SessionDirsReadOnly == [][session_dirs' = session_dirs]_vars

C27_ProcessedImagesNeverEmpty ==
    /\ step2_result # <<>> =>
          \A i \in 1..Len(step2_result[1].page_results) :
              step2_result[1].page_results[i].processed_images # <<>>
    /\ stage \in {"step3", "step4"} =>
          \A t \in 1..Len(tasks) :
              tasks[t].proc_images # <<>> =>
                  page_judgments[tasks[t].page].processed_images # <<>>

\* C28 (as stated): a page with skip_processing set is processed by no
\* stage: Step3 and Step4 create no task for it and leave its record and
\* its images as they were, Step5 does not tile it and creates no OCR group
\* for it.  Violated: Step5 does not read the flag.
C28_SkippedPagesNotProcessed ==
    \A i \in 1..Len(page_judgments) :
        page_judgments[i].skip_processing =>
            LET page_data == page_judgments[i]
            IN  /\ \A t \in 1..Len(tasks) : tasks[t].page # i
                /\ page_data.step3_result = <<>>
                /\ page_data.step4_page_count_result = <<>>
                /\ \A k \in 1..Len(page_data.processed_images) :
                      page_data.processed_images[k] = Path(page_data.page_number, k, "")
                /\ step5_result # <<>> =>
                      /\ \A r \in 1..Len(step5_result[1].split_results) :
                            step5_result[1].split_results[r].page_number
                                # page_data.page_number
                      /\ \A g \in 1..Len(step5_result[1].ocr_groups) :
                            step5_result[1].ocr_groups[g].page # page_data.page_number

\* the page tasks of Step3 and Step4 that ended in an exception: they
\* returned before every image of the page was answered
Raised(t) == tasks[t].pc = "done" /\ Len(answers[t]) < Len(tasks[t].proc_images)

\* C30: in Step2, Step3 and Step4 a page task that raised leaves one entry
\* of the stage result with success false, an error and the page number of
\* its own page; the entry of every other page is what that page's own
\* answers give, and the stage returns its result.
C30_PageExceptionBecomesFailedEntry ==
    /\ (stage = "step2" /\ step2_result = <<>>) \/ (stage = "step3" /\ step3_result = <<>>)
          \/ (stage = "step4" /\ step4_result = <<>>) => ENABLED NextStages
    /\ (stage = "step2" /\ step2_result # <<>>) =>
          LET page_results == step2_result[1].page_results
          IN  /\ Len(page_results) = Len(tasks)
              /\ \A t \in 1..Len(tasks) :
                    LET page_info == pdf_result[1].pages[tasks[t].page]
                        own == {i \in 1..Len(page_results) :
                                   page_results[i].page_number = page_info.page_number}
                    IN  /\ Cardinality(own) = 1
                        /\ \A i \in own :
                              /\ answers[t][1].raised =>
                                    ~page_results[i].success /\ page_results[i].error
                              /\ page_results[i] =
                                    Step2ProcessSinglePage(page_info.page_number,
                                                           page_info.image_file[1],
                                                           answers[t][1]).result
    /\ (stage = "step3" /\ step3_result # <<>>) =>
          LET page_results == step3_result[1].page_results
          IN  /\ step3_result[1].success
              /\ Len(page_results) = Len(tasks)
              /\ \A t \in 1..Len(tasks) :
                    /\ page_results[t].page_number
                          = page_judgments[tasks[t].page].page_number
                    /\ Raised(t) => ~page_results[t].success /\ page_results[t].error
                    /\ (~Raised(t) /\ tasks[t].proc_images # <<>>) =>
                          /\ page_results[t].success /\ ~page_results[t].error
                          /\ page_results[t].image_results =
                                [i \in 1..Len(tasks[t].proc_images) |->
                                    ProcessSingleImage(tasks[t].proc_images[i], answers[t][i])]
    /\ (stage = "step4" /\ step4_result # <<>>) =>
          LET evaluation_results == step4_result[1].evaluation_results
          IN  /\ step4_result[1].success
              /\ Len(evaluation_results) = Len(tasks)
              /\ \A t \in 1..Len(tasks) :
                    /\ evaluation_results[t].page_number
                          = page_judgments[tasks[t].page].page_number
                    /\ Raised(t) =>
                          ~evaluation_results[t].success /\ evaluation_results[t].error
                    /\ (~Raised(t) /\ tasks[t].proc_images # <<>>) =>
                          evaluation_results[t] =
                              MergeIndividualResults(answers[t], evaluation_results[t].page_number)

\* Step4 returned its result after the task of one page raised and the
\* task of another page merged a successful judgment
C30_Witness ==
    /\ stage = "step4" /\ step4_result # <<>>
    /\ \E t1, t2 \in 1..Len(tasks) :
          /\ Raised(t1) /\ ~step4_result[1].evaluation_results[t1].success
          /\ ~Raised(t2) /\ step4_result[1].evaluation_results[t2].success

\* the images of page task t whose orientation judgment has been requested
\* and has not been answered: the task awaits one call at a time
JudgmentsInFlight(t) ==
    IF tasks[t].pc = "awaiting" THEN {tasks[t].img_idx} ELSE {}

\* C31: while Stage3 runs, a step changes the page_data of a page only when
\* it is the step in which the task of that very page received the answer
\* for its last image: every image of the page has then been answered, the
\* task returns in the same step, the committed processed_images is the
\* task-local list with one path per image, and no other page is touched
C31_PageCommittedOnceByOwnTask ==
    [][stage = "step3" =>
          \A i \in 1..Len(page_judgments) :
              page_judgments'[i] # page_judgments[i] =>
                  \E t \in 1..Len(tasks) :
                      /\ tasks[t].page = i
                      /\ tasks[t].pc = "awaiting" /\ tasks'[t].pc = "done"
                      /\ Len(answers'[t]) = Len(tasks[t].proc_images)
                      /\ page_judgments'[i].processed_images = tasks'[t].new_paths
                      /\ Len(tasks'[t].new_paths) = Len(tasks[t].proc_images)
                      /\ \A j \in 1..Len(page_judgments) :
                            j # i => page_judgments'[j] = page_judgments[j]]_vars

\* a page with two images whose first image was rotated and answered while
\* the page_data still holds the list Stage3 was called with, next to a page
\* whose task has already committed
C31_Witness ==
    /\ stage = "step3"
    /\ \E t, u \in 1..Len(tasks) :
          /\ tasks[t].pc = "awaiting" /\ Len(tasks[t].proc_images) = 2
          /\ tasks[t].img_idx = 2
          /\ tasks[t].new_paths # <<>>
          /\ tasks[t].new_paths[1] # tasks[t].proc_images[1]
          /\ page_judgments[tasks[t].page].processed_images = tasks[t].proc_images
          /\ page_judgments[tasks[t].page].step3_result = <<>>
          /\ u # t /\ tasks[u].pc = "done"
          /\ page_judgments[tasks[u].page].step3_result # <<>>

\* C32: the images of one page are judged concurrently, so that while the
\* judgment of image i of a page is in flight and i is not the page's last
\* image, the judgment of image i+1 is in flight too
C32_ImagesOfAPageInFlightTogether ==
    stage = "step3" =>
        \A t \in 1..Len(tasks) :
            \A i \in JudgmentsInFlight(t) :
                i < Len(tasks[t].proc_images) => i + 1 \in JudgmentsInFlight(t)

\* C35: the page_results Stage2 returns are in ascending page_number order
\* whatever the order of the pages in the input and whatever the order in
\* which the page tasks completed, and every entry, an error entry included,
\* is the result of the task launched for the page whose number it carries
C35_Step2ResultsAscending ==
    step2_result # <<>> =>
        LET page_results == step2_result[1].page_results
        IN  /\ \A i, j \in 1..Len(page_results) :
                  i < j => page_results[i].page_number < page_results[j].page_number
            /\ Len(page_results) = Len(tasks)
            /\ \A t \in 1..Len(tasks) :
                  \E i \in 1..Len(page_results) :
                      /\ page_results[i] = tasks[t].result
                      /\ page_results[i].page_number
                            = pdf_result[1].pages[tasks[t].page].page_number

\* the input lists page 2 before page 1, the task of page 2 ended in an
\* exception, and the returned list holds the entry of page 1 first and the
\* error entry of page 2 second
C35_Witness ==
    /\ step2_result # <<>> /\ Len(tasks) = 2
    /\ pdf_result[1].pages[1].page_number = 2
    /\ tasks[1].result.page_number = 2 /\ answers[1][1].raised
    /\ Len(step2_result[1].page_results) = 2
    /\ step2_result[1].page_results[1].page_number = 1
    /\ step2_result[1].page_results[1].success
    /\ ~step2_result[1].page_results[2].success

\* C38: every page Stage1 rendered successfully has exactly one entry in
\* the page_results of Stage2, and the entry of a page whose image file is
\* missing is a failure entry with an error
C38_EveryRenderedPageHasOneEntry ==
    (step2_result # <<>> /\ step2_result[1].success) =>
        LET pages == pdf_result[1].pages
            page_results == step2_result[1].page_results
        IN  \A p \in 1..Len(pages) :
                pages[p].success =>
                    /\ Cardinality({i \in 1..Len(page_results) :
                            page_results[i].page_number = pages[p].page_number}) = 1
                    /\ \A i \in 1..Len(page_results) :
                          (/\ page_results[i].page_number = pages[p].page_number
                           /\ pages[p].image_file[1] \in unreadable)
                              => ~page_results[i].success /\ page_results[i].error

\* the number of entries of a result list that belong to a group
EntriesOf(results, group_key) ==
    Cardinality({i \in 1..Len(results) : results[i].group_key = group_key})

\* C39: after Stage6 on a non-empty groups dict every group is counted
\* exactly once per engine: it has one entry in the engine's successful
\* list or one in its failed list, never both and never none, so that the
\* lengths of the two lists add up to the number of groups
C39_EachGroupCountedOncePerEngine ==
    (step6_result # <<>> /\ step6.groups # <<>>) =>
        \A e \in Engines :
            LET successful == step6_result[1].ocr_results[e]
                failed == step6_result[1].failed_results[e]
            IN  /\ Len(successful) + Len(failed) = Len(step6.groups)
                /\ \A g \in 1..Len(step6.groups) :
                      EntriesOf(successful, step6.groups[g])
                         + EntriesOf(failed, step6.groups[g]) = 1

\* three groups: Gemini succeeded for two of them and raised for one,
\* Document AI succeeded for one and failed for two
C39_Witness ==
    /\ step6_result # <<>> /\ Len(step6.groups) = 3
    /\ Len(step6_result[1].ocr_results["gemini"]) = 2
    /\ Len(step6_result[1].failed_results["gemini"]) = 1
    /\ Len(step6_result[1].ocr_results["document_ai"]) = 1
    /\ Len(step6_result[1].failed_results["document_ai"]) = 2

\* the position of a group in the groups dict Stage6 was called with
GroupIndex(group_key) == CHOOSE g \in 1..Len(step6.groups) : step6.groups[g] = group_key

\* C36: the lists the fan-out stages return are ordered by the input alone,
\* whatever the order in which the tasks completed. Stage2 returns the
\* launched pages in ascending page_number order; Stage3 and Stage4 return
\* one entry per launched page in launch order, entry t carrying the
\* page_number of the page task t was launched for; Stage6 returns, per
\* engine, the successful and the failed groups in the order of the groups
\* dict, every entry being the result of the task launched for its group
C36_ResultOrderFollowsInput ==
    /\ (stage = "step2" /\ step2_result # <<>>) =>
          LET pages == pdf_result[1].pages
              valid_pages == Step2ValidPages(pages)
              launched == SortByPageNumber([t \in 1..Len(valid_pages) |-> pages[valid_pages[t]]])
              page_results == step2_result[1].page_results
          IN  /\ [i \in 1..Len(page_results) |-> page_results[i].page_number]
                    = [i \in 1..Len(launched) |-> launched[i].page_number]
              /\ \A t \in 1..Len(tasks) :
                    tasks[t].result.page_number = pages[valid_pages[t]].page_number
    /\ (stage = "step3" /\ step3_result # <<>>) =>
          LET valid_pages == ValidPages(page_judgments)
              page_results == step3_result[1].page_results
          IN  [t \in 1..Len(page_results) |-> page_results[t].page_number]
                 = [t \in 1..Len(valid_pages) |-> page_judgments[valid_pages[t]].page_number]
    /\ (stage = "step4" /\ step4_result # <<>>) =>
          LET valid_pages == ValidPages(page_judgments)
              evaluation_results == step4_result[1].evaluation_results
          IN  [t \in 1..Len(evaluation_results) |-> evaluation_results[t].page_number]
                 = [t \in 1..Len(valid_pages) |-> page_judgments[valid_pages[t]].page_number]
    /\ (stage = "step6" /\ step6_result # <<>> /\ step6.groups # <<>>) =>
          \A e \in Engines :
              \A results \in {step6_result[1].ocr_results[e], step6_result[1].failed_results[e]} :
                  /\ \A i, j \in 1..Len(results) :
                        i < j => GroupIndex(results[i].group_key) < GroupIndex(results[j].group_key)
                  /\ \A i \in 1..Len(results) :
                        results[i] = group_tasks[GroupIndex(results[i].group_key)][e][1]

\* Stage6 returned for three groups run two at a time: Gemini failed for
\* the second group only, and its successful list holds the first and the
\* third group in that order
C36_Witness ==
    /\ stage = "step6" /\ step6_result # <<>> /\ Len(step6.groups) = 3
    /\ ~group_tasks[2].gemini[1].success
    /\ Len(step6_result[1].ocr_results["gemini"]) = 2
    /\ step6_result[1].ocr_results["gemini"][1].group_key = step6.groups[1]
    /\ step6_result[1].ocr_results["gemini"][2].group_key = step6.groups[3]
    /\ step6_result[1].failed_results["gemini"][1].group_key = step6.groups[2]

\* the page_data _evaluate_single_page reads out of an entry of the list it
\* is given: dict.get answers None, here <<>>, for a key the entry lacks
Step4PageData(entry) ==
    [page_number |-> entry.page_number,
     processed_images |->
        IF "processed_images" \in DOMAIN entry THEN entry.processed_images ELSE <<>>,
     processed_image |->
        IF "processed_image" \in DOMAIN entry THEN entry.processed_image ELSE <<>>]

\* C37: the page_results Stage3 returns are a valid input of Stage4: for
\* every successful entry Stage4 finds at least one image to judge, the
\* page's rebuilt processed image list
C37_Step3ResultsFeedStep4 ==
    (stage = "step3" /\ step3_result # <<>>) =>
        LET page_results == step3_result[1].page_results
        IN  \A t \in 1..Len(page_results) :
                page_results[t].success =>
                    /\ ProcImages(Step4PageData(page_results[t])) # <<>>
                    /\ ProcImages(Step4PageData(page_results[t]))
                          = page_judgments[tasks[t].page].processed_images

\* C33: the page-count judgment call makes at most max_retries API
\* attempts: every attempt but the last one made failed, by an API failure
\* or by a response that could not be parsed, and was followed by the next
\* one; the first attempt whose call and parse both succeed is returned as
\* success with its judgment; after max_retries failed attempts the call
\* returns success false with the error of the last attempt; and the call
\* always returns
C33_PageCountCallBounded ==
    /\ [](/\ evaluator.api_calls <= evaluator.max_retries
          /\ \A i \in 1..(Len(evaluator.attempts) - 1) : evaluator.attempts[i].error # <<>>
          /\ evaluator.pc = "calling" => Len(evaluator.attempts) = evaluator.api_calls - 1
          /\ evaluator.pc = "returned" =>
                LET attempts == evaluator.attempts
                    result == evaluator.result[1]
                IN  /\ Len(attempts) = evaluator.api_calls
                    /\ result.success <=>
                          (attempts # <<>> /\ attempts[Len(attempts)].error = <<>>)
                    /\ result.success =>
                          /\ result.judgment = attempts[Len(attempts)].judgment
                          /\ result.attempt = Len(attempts)
                    /\ (~result.success /\ attempts # <<>>) =>
                          /\ Len(attempts) = evaluator.max_retries
                          /\ result.error = attempts[Len(attempts)].error
                          /\ result.error # <<>>)
    /\ <>(evaluator.pc = "returned")

\* with max_retries 3 the API failed, then two responses could not be
\* parsed, and the call returned the failure of the third attempt
C33_Witness ==
    /\ evaluator.pc = "returned" /\ evaluator.max_retries = 3
    /\ Len(evaluator.attempts) = 3
    /\ evaluator.attempts[1].error = <<"api_error">>
    /\ evaluator.attempts[2].error = <<"json_error">>
    /\ evaluator.attempts[3].error = <<"parse_error">>
    /\ ~evaluator.result[1].success
    /\ evaluator.result[1].error = <<"parse_error">>

\* C34: the OCR call of the vision-LLM engine makes at most max_retries + 1
\* API calls, sleeps 2^k seconds before retry number k + 1, makes no call
\* after a successful API call, returns the last failure once max_retries
\* retries have failed, and always returns
C34_OcrCallRetriesWithBackoff ==
    /\ [](/\ ocr_engine.api_calls <= ocr_engine.max_retries + 1
          /\ ocr_engine.retry_count <= ocr_engine.max_retries
          /\ ocr_engine.sleeps = [k \in 1..Len(ocr_engine.sleeps) |-> 2 ^ (k - 1)]
          /\ Len(ocr_engine.sleeps)
                = ocr_engine.retry_count + (IF ocr_engine.pc = "sleeping" THEN 1 ELSE 0)
          /\ \A i \in 1..(Len(ocr_engine.api_results) - 1) :
                ~ocr_engine.api_results[i].api_success
          /\ ocr_engine.pc = "returned" =>
                LET api_results == ocr_engine.api_results
                    result == ocr_engine.result[1]
                    last == api_results[Len(api_results)]
                IN  /\ (api_results # <<>> /\ last.api_success) =>
                          result = [success |-> last.error = <<>>, error |-> last.error,
                                    text |-> last.text]
                    /\ (api_results # <<>> /\ ~last.api_success /\ result.error = last.error) =>
                          /\ Len(api_results) = ocr_engine.max_retries + 1
                          /\ ~result.success
                    /\ (Len(api_results) = ocr_engine.max_retries + 1 /\ ~last.api_success) =>
                          ~result.success /\ result.error = last.error)
    /\ <>(ocr_engine.pc = "returned")

\* with max_retries 3 four API calls failed, the engine slept 1, 2 and 4
\* seconds between them and returned the failure of the fourth call
C34_Witness ==
    /\ ocr_engine.pc = "returned" /\ ocr_engine.max_retries = 3
    /\ ocr_engine.api_calls = 4 /\ Len(ocr_engine.api_results) = 4
    /\ ocr_engine.sleeps = <<1, 2, 4>>
    /\ ocr_engine.api_results[1].error = <<"api_error">>
    /\ ocr_engine.api_results[4].error = <<"timeout">>
    /\ ocr_engine.result[1] = [success |-> FALSE, error |-> <<"timeout">>, text |-> <<>>]

\* group task g is at position pc of process_group_with_both_engines
GroupAt(g, pc) == g \in DOMAIN group_tasks /\ group_tasks[g].pc = pc

\* group task g has left the "async with semaphore" block with the results
\* of both engines
GroupHandled(g) ==
    /\ g \in DOMAIN group_tasks
    /\ group_tasks[g].pc = "done"
    /\ group_tasks[g].gemini # <<>> /\ group_tasks[g].document_ai # <<>>

\* C40: with max_concurrent_ocr >= 1 and engine calls that return, every
\* group task that waits for the semaphore acquires it, every running group
\* task gets both engine results, also when an engine raised, and releases
\* the semaphore; process_ocr_groups returns with every group handled and
\* every slot of the semaphore free again
C40_EveryGroupEventuallyHandled ==
    /\ \A g \in 1..MaxGroups :
          /\ GroupAt(g, "waiting") ~> GroupAt(g, "running")
          /\ GroupAt(g, "running") ~> GroupHandled(g)
    /\ (step6.pc = "gather") ~> (step6_result # <<>>)
    /\ [](step6_result # <<>> =>
             /\ \A g \in 1..Len(step6.groups) : GroupHandled(g)
             /\ step6.groups # <<>> => step6.semaphore = step6.max_concurrent_ocr)

\* two groups ran one at a time, an engine failed for each of them, and
\* process_ocr_groups has returned
C40_Witness ==
    /\ step6_result # <<>> /\ Len(step6.groups) = 2 /\ step6.max_concurrent_ocr = 1
    /\ \A g \in 1..2 : GroupHandled(g)
    /\ ~group_tasks[1].gemini[1].success /\ ~group_tasks[2].document_ai[1].success
    /\ step6.semaphore = 1

============================================================================
